---- MODULE Spec2Model ----
(***************************************************************************)
(* Payment-instruction pipeline: parseInstruction, validateInstruction,    *)
(* executeTransaction, their composition processPaymentInstruction, and    *)
(* the HTTP handler that calls it.                                         *)
(*                                                                         *)
(* JavaScript values are represented as follows.                           *)
(*   string     a TLA+ string (Len, Head, Tail, SubSeq and \o act on it)   *)
(*   null       the sentinel Null; undefined  the sentinel Undefined       *)
(*   number     a record [t, num, den]: t = "num" is the rational num/den  *)
(*              in lowest power-of-ten terms, t = "nan" is NaN, t = "inf"  *)
(*              is +/-Infinity (sign in num), t = "null" is the value null *)
(*              held by a numeric field                                    *)
(*   array      a sequence                                                 *)
(*   object     a record                                                   *)
(***************************************************************************)
EXTENDS Integers, Sequences, FiniteSets, TLC

VARIABLES pc, entry, instruction, accounts, accounts0, now,
          parsedData, validatedData, result, threw,
          payload, response, calls, trace

vars == <<pc, entry, instruction, accounts, accounts0, now,
          parsedData, validatedData, result, threw,
          payload, response, calls, trace>>

-----------------------------------------------------------------------------
(* JavaScript null and undefined held by a string-valued slot.  Neither    *)
(* sentinel is a string the model's inputs can spell: "<" and ">" are in   *)
(* no input alphabet.                                                      *)
Null == "<null>"

Undefined == "<undefined>"

(* Boolean(x) of a string-or-null-or-undefined value. *)
Truthy(x) == x # Null /\ x # Undefined /\ x # ""

(* String(x) as used by template literals and property keys. *)
ToStr(x) == IF x = Null THEN "null" ELSE IF x = Undefined THEN "undefined" ELSE x

-----------------------------------------------------------------------------
(* Numbers *)

NumNull == [t |-> "null", num |-> 0, den |-> 1]

NumUndefined == [t |-> "undefined", num |-> 0, den |-> 1]

NaN == [t |-> "nan", num |-> 0, den |-> 1]

Infinity(sign) == [t |-> "inf", num |-> sign, den |-> 1]

RECURSIVE Pow10(_)
Pow10(k) == IF k <= 0 THEN 1 ELSE 10 * Pow10(k - 1)

(* The rational n/d (d a power of ten) in lowest power-of-ten terms. *)
RECURSIVE Rat(_, _)
Rat(n, d) == IF d > 1 /\ n % 10 = 0 THEN Rat(n \div 10, d \div 10)
             ELSE [t |-> "num", num |-> n, den |-> d]

N(i) == Rat(i, 1)

(* ToNumber of a numeric operand: null converts to 0, undefined to NaN. *)
ToNum(x) == IF x.t = "null" THEN N(0) ELSE IF x.t = "undefined" THEN NaN ELSE x

(* Number.isInteger *)
NumberIsInteger(x) == x.t = "num" /\ x.den = 1

(* a variant that takes every value for a number *)
NumberIsNaNNever(x) == FALSE

(* Number.isNaN *)
NumberIsNaN(x) == x.t = "nan"

(* a < b and a <= b on numbers (IEEE: any comparison with NaN is false) *)
NumLess(a0, b0) ==
  LET a == ToNum(a0)  b == ToNum(b0) IN
  IF a.t = "nan" \/ b.t = "nan" THEN FALSE
  ELSE IF a.t = "inf" THEN a.num < 0 /\ ~(b.t = "inf" /\ b.num < 0)
  ELSE IF b.t = "inf" THEN b.num > 0
  ELSE a.num * b.den < b.num * a.den

NumLeq(a0, b0) ==
  LET a == ToNum(a0)  b == ToNum(b0) IN
  IF a.t = "nan" \/ b.t = "nan" THEN FALSE
  ELSE NumLess(a, b) \/ a = b

(* a + b and a - b on numbers *)
NumAdd(a0, b0) ==
  LET a == ToNum(a0)  b == ToNum(b0) IN
  IF a.t = "nan" \/ b.t = "nan" THEN NaN
  ELSE IF a.t = "inf" /\ b.t = "inf" THEN (IF a.num = b.num THEN a ELSE NaN)
  ELSE IF a.t = "inf" THEN a
  ELSE IF b.t = "inf" THEN b
  ELSE LET d == IF a.den > b.den THEN a.den ELSE b.den
       IN Rat(a.num * (d \div a.den) + b.num * (d \div b.den), d)

NumNeg(a) == IF a.t \in {"num", "inf"} THEN [a EXCEPT !.num = 0 - a.num] ELSE a

NumSub(a0, b0) == NumAdd(a0, NumNeg(ToNum(b0)))

-----------------------------------------------------------------------------
(* Strings *)

LowerLetters == "abcdefghijklmnopqrstuvwxyz"

UpperLetters == "ABCDEFGHIJKLMNOPQRSTUVWXYZ"

Digits == "0123456789"

CharAt(s, i) == SubSeq(s, i, i)

(* the characters of a string, as a set *)
CharsOf(s) == {CharAt(s, i) : i \in 1..Len(s)}

LowerSet == CharsOf(LowerLetters)

UpperSet == CharsOf(UpperLetters)

DigitSet == CharsOf(Digits)

(* lower-case letter -> upper-case letter *)
UpperOf == [c \in LowerSet |->
              CharAt(UpperLetters, CHOOSE i \in 1..26 : CharAt(LowerLetters, i) = c)]

(* digit character -> its value *)
DigitOf == [c \in DigitSet |-> (CHOOSE i \in 1..10 : CharAt(Digits, i) = c) - 1]

IsDigit(c) == c \in DigitSet

DigitVal(c) == DigitOf[c]

IsLetter(c) == c \in LowerSet \/ c \in UpperSet

UpperChar(c) == IF c \in LowerSet THEN UpperOf[c] ELSE c

(* a variant that leaves the string as written *)
ToUpperCaseAsWritten(s) == s

(* String.prototype.toUpperCase *)
RECURSIVE ToUpperCase(_)
ToUpperCase(s) == IF s = "" THEN "" ELSE UpperChar(Head(s)) \o ToUpperCase(Tail(s))

(* \s of a JavaScript regular expression, on the input alphabet *)
IsSpace(c) == c \in {" ", "\t", "\n"}

RECURSIVE TrimStart(_)
TrimStart(s) == IF s # "" /\ IsSpace(Head(s)) THEN TrimStart(Tail(s)) ELSE s

RECURSIVE TrimEnd(_)
TrimEnd(s) ==
  IF s # "" /\ IsSpace(CharAt(s, Len(s))) THEN TrimEnd(SubSeq(s, 1, Len(s) - 1)) ELSE s

(* a variant that trims the start only *)
TrimLeadingOnly(s) == TrimStart(s)

(* String.prototype.trim *)
Trim(s) == TrimEnd(TrimStart(s))

(* s.replace(/\s+/g, ' ') *)
RECURSIVE CollapseSpaces(_)
CollapseSpaces(s) ==
  IF s = "" THEN ""
  ELSE IF IsSpace(Head(s)) THEN " " \o CollapseSpaces(TrimStart(s))
  ELSE Head(s) \o CollapseSpaces(Tail(s))

(* s.split(' '): the pieces between single spaces; "" splits into [""] *)
RECURSIVE SplitFrom(_, _)
SplitFrom(s, cur) ==
  IF s = "" THEN <<cur>>
  ELSE IF Head(s) = " " THEN <<cur>> \o SplitFrom(Tail(s), "")
  ELSE SplitFrom(Tail(s), cur \o Head(s))

Split(s) == SplitFrom(s, "")

(* a variant that joins without a separator *)
RECURSIVE JoinTight(_)
JoinTight(toks) == IF toks = <<>> THEN "" ELSE toks[1] \o JoinTight(Tail(toks))

(* Array.prototype.join(' ') *)
RECURSIVE Join(_)
Join(toks) ==
  IF toks = <<>> THEN ""
  ELSE IF Len(toks) = 1 THEN toks[1]
  ELSE toks[1] \o " " \o Join(Tail(toks))

(* Array.prototype.slice(from, to) with 0-based indices, on a sequence *)
Slice(toks, from, to) == SubSeq(toks, from + 1, to)

(* tokens[i] with a 0-based index: undefined past the end *)
At(toks, i) == IF i >= 0 /\ i < Len(toks) THEN toks[i + 1] ELSE Undefined

(* x?.toUpperCase() *)
OptUpper(x) == IF x = Undefined \/ x = Null THEN Undefined ELSE ToUpperCase(x)

(* String(n) of a non-negative integer, and of any integer *)
RECURSIVE NatToString(_)
NatToString(n) ==
  IF n < 10 THEN CharAt(Digits, n + 1)
  ELSE NatToString(n \div 10) \o CharAt(Digits, (n % 10) + 1)

IntToString(n) == IF n < 0 THEN "-" \o NatToString(0 - n) ELSE NatToString(n)

(* the longest all-digit prefix of s *)
RECURSIVE DigitPrefix(_)
DigitPrefix(s) ==
  IF s # "" /\ IsDigit(Head(s)) THEN Head(s) \o DigitPrefix(Tail(s)) ELSE ""

RECURSIVE DigitsValue(_, _)
DigitsValue(s, acc) ==
  IF s = "" THEN acc ELSE DigitsValue(Tail(s), 10 * acc + DigitVal(Head(s)))

Drop(s, k) == SubSeq(s, k + 1, Len(s))

(* Number(str) for a non-empty token: StrDecimalLiteral, that is an optional *)
(* sign, then Infinity or decimal digits with an optional fraction and an    *)
(* optional exponent; anything else is NaN.  Radix-prefixed literals (0x,    *)
(* 0o, 0b) are outside the token alphabet and are not modelled.              *)
Number(str) ==
  LET sign  == IF str # "" /\ Head(str) = "-" THEN -1 ELSE 1
      body  == IF str # "" /\ Head(str) \in {"+", "-"} THEN Tail(str) ELSE str
      ip    == DigitPrefix(body)
      r1    == Drop(body, Len(ip))
      hasDot == r1 # "" /\ Head(r1) = "."
      fp    == IF hasDot THEN DigitPrefix(Tail(r1)) ELSE ""
      r2    == IF hasDot THEN Drop(r1, 1 + Len(fp)) ELSE r1
      hasExp == r2 # "" /\ Head(r2) \in {"e", "E"}
      e1    == IF hasExp THEN Tail(r2) ELSE ""
      esign == IF e1 # "" /\ Head(e1) = "-" THEN -1 ELSE 1
      ebody == IF e1 # "" /\ Head(e1) \in {"+", "-"} THEN Tail(e1) ELSE e1
      ed    == DigitPrefix(ebody)
      r3    == IF hasExp THEN Drop(ebody, Len(ed)) ELSE r2
      mant  == DigitsValue(ip \o fp, 0)
      ex    == esign * DigitsValue(ed, 0) - Len(fp)
  IN IF str = "" THEN N(0)
     ELSE IF body = "Infinity" THEN Infinity(sign)
     ELSE IF ip = "" /\ fp = "" THEN NaN
     ELSE IF hasExp /\ ed = "" THEN NaN
     ELSE IF r3 # "" THEN NaN
     ELSE IF ex >= 0 THEN Rat(sign * mant * Pow10(ex), 1)
     ELSE Rat(sign * mant, Pow10(0 - ex))

-----------------------------------------------------------------------------
(* constants.js *)

SUPPORTED_CURRENCIES == {"NGN", "USD", "GBP", "GHS"}

(* /^[a-zA-Z0-9\-.@]+$/ *)
RECURSIVE AllAccountIdChars(_)
AllAccountIdChars(s) ==
  s = "" \/ ( /\ (IsLetter(Head(s)) \/ IsDigit(Head(s)) \/ Head(s) \in {"-", ".", "@"})
              /\ AllAccountIdChars(Tail(s)) )

VALID_ACCOUNT_ID_CHARS(s) == s # "" /\ AllAccountIdChars(s)

KEYWORDS == [DEBIT |-> "DEBIT", CREDIT |-> "CREDIT", FROM |-> "FROM", TO |-> "TO",
             ACCOUNT |-> "ACCOUNT", FOR |-> "FOR", ON |-> "ON"]

STATUS_CODES ==
  [SUCCESS |-> "AP00", PENDING |-> "AP02", INVALID_AMOUNT |-> "AM01",
   CURRENCY_MISMATCH |-> "CU01", UNSUPPORTED_CURRENCY |-> "CU02",
   INSUFFICIENT_FUNDS |-> "AC01", SAME_ACCOUNT |-> "AC02",
   ACCOUNT_NOT_FOUND |-> "AC03", INVALID_ACCOUNT_FORMAT |-> "AC04",
   INVALID_DATE_FORMAT |-> "DT01", MISSING_KEYWORD |-> "SY01",
   INVALID_KEYWORD_ORDER |-> "SY02", MALFORMED_INSTRUCTION |-> "SY03"]

STATUS_MESSAGES ==
  [AP00 |-> "Transaction executed successfully",
   AP02 |-> "Transaction scheduled for future execution",
   AM01 |-> "Amount must be a positive integer",
   CU01 |-> "Account currency mismatch",
   CU02 |-> "Unsupported currency. Only NGN, USD, GBP, and GHS are supported",
   AC01 |-> "Insufficient funds in debit account",
   AC02 |-> "Debit and credit accounts cannot be the same",
   AC03 |-> "Account not found",
   AC04 |-> "Invalid account ID format",
   DT01 |-> "Invalid date format. Expected YYYY-MM-DD",
   SY01 |-> "Missing required keyword in instruction",
   SY02 |-> "Invalid keyword order in instruction",
   SY03 |-> "Malformed instruction: unable to parse"]

TRANSACTION_STATUS == [SUCCESSFUL |-> "successful", PENDING |-> "pending", FAILED |-> "failed"]

TRANSACTION_TYPES == [DEBIT |-> "DEBIT", CREDIT |-> "CREDIT"]

(* /^\d{4}-\d{2}-\d{2}$/ *)
DATE_FORMAT_REGEX(s) ==
  /\ Len(s) = 10
  /\ \A i \in {1, 2, 3, 4, 6, 7, 9, 10} : IsDigit(CharAt(s, i))
  /\ CharAt(s, 5) = "-"
  /\ CharAt(s, 8) = "-"

-----------------------------------------------------------------------------
(* Dates.  A Date at 00:00 UTC is represented by its day number (days since *)
(* 1970-01-01); the code compares and decomposes dates at that granularity. *)

(* the day number of the proleptic Gregorian date y-m-d, 1 <= m <= 12 *)
DaysFromCivil(y, m, d) ==
  LET yy  == IF m <= 2 THEN y - 1 ELSE y
      era == yy \div 400
      yoe == yy - era * 400
      mp  == IF m > 2 THEN m - 3 ELSE m + 9
      doy == ((153 * mp + 2) \div 5) + d - 1
      doe == yoe * 365 + (yoe \div 4) - (yoe \div 100) + doy
  IN era * 146097 + doe - 719468

(* the date [year, month (1..12), day] of a day number *)
CivilFromDays(z0) ==
  LET z   == z0 + 719468
      era == z \div 146097
      doe == z - era * 146097
      yoe == (doe - (doe \div 1460) + (doe \div 36524) - (doe \div 146096)) \div 365
      doy == doe - (365 * yoe + (yoe \div 4) - (yoe \div 100))
      mp  == (5 * doy + 2) \div 153
      d   == doy - ((153 * mp + 2) \div 5) + 1
      m   == IF mp < 10 THEN mp + 3 ELSE mp - 9
  IN [year |-> yoe + era * 400 + (IF m <= 2 THEN 1 ELSE 0), month |-> m, day |-> d]

(* Date.UTC(year, monthIndex, day): a year in 0..99 means 1900 + year; the   *)
(* month index and the day overflow into the neighbouring months and years. *)
DateUTC(year, monthIndex, day) ==
  LET fullYear == IF 0 <= year /\ year <= 99 THEN 1900 + year ELSE year
      ym == fullYear + (monthIndex \div 12)
      mn == monthIndex % 12
  IN DaysFromCivil(ym, mn + 1, 1) + day - 1

getUTCFullYear(date) == CivilFromDays(date).year

(* getUTCMonth is 0-based *)
getUTCMonth(date) == CivilFromDays(date).month - 1

getUTCDate(date) == CivilFromDays(date).day

(* dateString.split('-').map(Number) on a string DATE_FORMAT_REGEX accepts *)
DateParts(dateString) ==
  [year  |-> DigitsValue(SubSeq(dateString, 1, 4), 0),
   month |-> DigitsValue(SubSeq(dateString, 6, 7), 0),
   day   |-> DigitsValue(SubSeq(dateString, 9, 10), 0)]

-----------------------------------------------------------------------------
(* validator *)

Valid == [valid |-> TRUE, code |-> "", reason |-> ""]

Invalid(code, reason) == [valid |-> FALSE, code |-> code, reason |-> reason]

(* a variant that lets the amount zero through *)
validateAmountAllowingZero(amount) ==
  IF amount.t \in {"null", "undefined"}
  THEN Invalid(STATUS_CODES.INVALID_AMOUNT, "Amount is required")
  ELSE IF ~NumberIsInteger(amount) \/ NumLess(amount, N(0))
  THEN Invalid(STATUS_CODES.INVALID_AMOUNT, STATUS_MESSAGES.AM01)
  ELSE Valid

validateAmount(amount) ==
  IF amount.t \in {"null", "undefined"}
  THEN Invalid(STATUS_CODES.INVALID_AMOUNT, "Amount is required")
  ELSE IF ~NumberIsInteger(amount) \/ NumLeq(amount, N(0))
  THEN Invalid(STATUS_CODES.INVALID_AMOUNT, STATUS_MESSAGES.AM01)
  ELSE Valid

validateCurrency(currency) ==
  IF ~Truthy(currency)
  THEN Invalid(STATUS_CODES.UNSUPPORTED_CURRENCY, "Currency is required")
  ELSE IF ToUpperCase(currency) \notin SUPPORTED_CURRENCIES
  THEN Invalid(STATUS_CODES.UNSUPPORTED_CURRENCY, STATUS_MESSAGES.CU02)
  ELSE Valid

validateAccountIdFormat(accountId) ==
  IF ~Truthy(accountId)
  THEN Invalid(STATUS_CODES.INVALID_ACCOUNT_FORMAT, "Account ID is required")
  ELSE IF ~VALID_ACCOUNT_ID_CHARS(accountId)
  THEN Invalid(STATUS_CODES.INVALID_ACCOUNT_FORMAT,
               STATUS_MESSAGES.AC04 \o ": '" \o accountId \o "' contains invalid characters")
  ELSE Valid

validateDateFormat(dateString) ==
  IF ~DATE_FORMAT_REGEX(dateString)
  THEN Invalid(STATUS_CODES.INVALID_DATE_FORMAT,
               STATUS_MESSAGES.DT01 \o ": '" \o dateString \o "'")
  ELSE LET p    == DateParts(dateString)
           date == DateUTC(p.year, p.month - 1, p.day)
       IN IF \/ getUTCFullYear(date) # p.year
             \/ getUTCMonth(date) # p.month - 1
             \/ getUTCDate(date) # p.day
          THEN Invalid(STATUS_CODES.INVALID_DATE_FORMAT,
                       "Invalid date: '" \o dateString
                         \o "' does not represent a valid calendar date")
          ELSE Valid

(* nowDate is new Date() reduced to its UTC [year, month (1..12), day] *)
isDateInFuture(dateString, nowDate) ==
  LET p           == DateParts(dateString)
      targetDate  == DateUTC(p.year, p.month - 1, p.day)
      currentDate == DateUTC(nowDate.year, nowDate.month - 1, nowDate.day)
  IN targetDate > currentDate

-----------------------------------------------------------------------------
(* Accounts.  An element of the accounts array is an object                 *)
(* [account_id, id, balance, currency] (an absent or null property holds    *)
(* Undefined or Null) or the value null.                                    *)

NullElement == [isNull |-> TRUE]

(* the own property names of Object.prototype that VALID_ACCOUNT_ID_CHARS   *)
(* accepts: reading one of them from a plain object literal yields a        *)
(* function, which is truthy and has no currency, balance or id.            *)
ObjectPrototypeKeys ==
  {"constructor", "toString", "valueOf", "hasOwnProperty", "isPrototypeOf",
   "propertyIsEnumerable", "toLocaleString"}

(* accountsMap[key] after accounts.forEach(a => accountsMap[a.account_id] = a) *)
(* on accountsMap = {}: the last element stored under the key; otherwise    *)
(* what the prototype chain of the object literal holds; otherwise          *)
(* undefined.                                                               *)
AccountsMapGet(accts, key) ==
  LET hits == {i \in 1..Len(accts) :
                 accts[i] # NullElement /\ ToStr(accts[i].account_id) = key}
  IN IF hits # {}
     THEN [kind |-> "account", account |-> accts[CHOOSE i \in hits : \A j \in hits : j <= i]]
     ELSE IF key \in ObjectPrototypeKeys
     THEN [kind |-> "prototype"]
     ELSE [kind |-> "undefined"]

(* a variant that reads the stored currency in upper case *)
PropCurrencyUpperCased(obj) ==
  IF obj.kind = "account" /\ obj.account.currency \notin {Undefined, Null}
  THEN ToUpperCase(obj.account.currency)
  ELSE Undefined

(* property reads on what AccountsMapGet returned *)
PropCurrency(obj) == IF obj.kind = "account" THEN obj.account.currency ELSE Undefined

PropId(obj) == IF obj.kind = "account" THEN obj.account.id ELSE Undefined

(* a variant that never finds the balance short *)
PropBalanceLessNever(obj, amount) == FALSE

(* obj.balance < amount: a comparison with undefined is false *)
PropBalanceLess(obj, amount) ==
  obj.kind = "account" /\ NumLess(obj.account.balance, amount)

PropBalanceStr(obj) ==
  IF obj.kind = "account" /\ obj.account.balance.t = "num" /\ obj.account.balance.den = 1
  THEN IntToString(obj.account.balance.num)
  ELSE "undefined"

(* a variant that reports every failed check under the parser's SY03 *)
FailAsMalformed(parsed, code, reason) ==
  [parsed EXCEPT !.status = TRANSACTION_STATUS.FAILED,
                 !.status_code = STATUS_CODES.MALFORMED_INSTRUCTION,
                 !.status_reason = reason]

(* a variant that marks the record failed and leaves its code as it was *)
FailWithoutCode(parsed, code, reason) ==
  [parsed EXCEPT !.status = TRANSACTION_STATUS.FAILED,
                 !.status_reason = reason]

Fail(parsed, code, reason) ==
  [parsed EXCEPT !.status = TRANSACTION_STATUS.FAILED,
                 !.status_code = code,
                 !.status_reason = reason]

(* accounts.forEach(account => account.account_id) raises a TypeError on a *)
(* null element; it is reached only when the record is not yet terminal.   *)
validateInstructionThrows(parsed, accts) ==
  /\ ~Truthy(parsed.status_code)
  /\ \E i \in 1..Len(accts) : accts[i] = NullElement

(* the checks of validateInstruction, in the order of the code *)
validationRules(parsed, accts, nowDate) ==
  LET amountValidation       == validateAmount(parsed.amount)
      currencyValidation     == validateCurrency(parsed.currency)
      debitFormatValidation  == validateAccountIdFormat(parsed.debit_account)
      creditFormatValidation == validateAccountIdFormat(parsed.credit_account)
      debitAccount           == AccountsMapGet(accts, parsed.debit_account)
      creditAccount          == AccountsMapGet(accts, parsed.credit_account)
      dateValidation         == validateDateFormat(parsed.execute_by)
      isFutureTransaction    ==
        Truthy(parsed.execute_by) /\ isDateInFuture(parsed.execute_by, nowDate)
  IN
  IF ~amountValidation.valid
  THEN Fail(parsed, amountValidation.code, amountValidation.reason)
  ELSE IF ~currencyValidation.valid
  THEN Fail(parsed, currencyValidation.code, currencyValidation.reason)
  ELSE IF ~debitFormatValidation.valid
  THEN Fail(parsed, debitFormatValidation.code,
            "Debit account: " \o debitFormatValidation.reason)
  ELSE IF ~creditFormatValidation.valid
  THEN Fail(parsed, creditFormatValidation.code,
            "Credit account: " \o creditFormatValidation.reason)
  ELSE IF debitAccount.kind = "undefined"
  THEN Fail(parsed, STATUS_CODES.ACCOUNT_NOT_FOUND,
            "Debit account '" \o parsed.debit_account \o "' not found")
  ELSE IF creditAccount.kind = "undefined"
  THEN Fail(parsed, STATUS_CODES.ACCOUNT_NOT_FOUND,
            "Credit account '" \o parsed.credit_account \o "' not found")
  ELSE IF parsed.debit_account = parsed.credit_account
  THEN Fail(parsed, STATUS_CODES.SAME_ACCOUNT, STATUS_MESSAGES.AC02)
  ELSE IF PropCurrency(debitAccount) # PropCurrency(creditAccount)
  THEN Fail(parsed, STATUS_CODES.CURRENCY_MISMATCH,
            STATUS_MESSAGES.CU01 \o ": debit account uses "
              \o ToStr(PropCurrency(debitAccount)) \o ", credit account uses "
              \o ToStr(PropCurrency(creditAccount)))
  ELSE IF parsed.currency # PropCurrency(debitAccount)
  THEN Fail(parsed, STATUS_CODES.CURRENCY_MISMATCH,
            STATUS_MESSAGES.CU01 \o ": instruction specifies " \o parsed.currency
              \o ", accounts use " \o ToStr(PropCurrency(debitAccount)))
  ELSE IF Truthy(parsed.execute_by) /\ ~dateValidation.valid
  THEN Fail(parsed, dateValidation.code, dateValidation.reason)
  ELSE IF ~isFutureTransaction /\ PropBalanceLess(debitAccount, parsed.amount)
  THEN Fail(parsed, STATUS_CODES.INSUFFICIENT_FUNDS,
            STATUS_MESSAGES.AC01 \o ": account " \o ToStr(PropId(debitAccount))
              \o " has " \o PropBalanceStr(debitAccount) \o " "
              \o ToStr(PropCurrency(debitAccount)) \o ", needs "
              \o IntToString(parsed.amount.num) \o " " \o parsed.currency)
  ELSE IF isFutureTransaction
  THEN [parsed EXCEPT !.status = TRANSACTION_STATUS.PENDING,
                      !.status_code = STATUS_CODES.PENDING,
                      !.status_reason = STATUS_MESSAGES.AP02]
  ELSE [parsed EXCEPT !.status = TRANSACTION_STATUS.SUCCESSFUL,
                      !.status_code = STATUS_CODES.SUCCESS,
                      !.status_reason = STATUS_MESSAGES.AP00]

(* a variant that runs the checks on a record that already has a code *)
validateInstructionRevalidating(parsed, accts, nowDate) ==
  validationRules(parsed, accts, nowDate)

(* the value validateInstruction returns when it does not raise *)
validateInstruction(parsed, accts, nowDate) ==
  IF Truthy(parsed.status_code) THEN parsed
  ELSE validationRules(parsed, accts, nowDate)

-----------------------------------------------------------------------------
(* executor *)

getInvolvedAccounts(validated, accts) ==
  IF ~Truthy(validated.debit_account) /\ ~Truthy(validated.credit_account)
  THEN <<>>
  ELSE LET involvedIds ==
             {x \in {validated.debit_account, validated.credit_account} : Truthy(x)}
           involved(account) == account.id \in involvedIds
       IN SelectSeq(accts, involved)

(* { ...validatedData, accounts: view } *)
WithAccounts(validated, view) ==
  [type |-> validated.type, amount |-> validated.amount,
   currency |-> validated.currency, debit_account |-> validated.debit_account,
   credit_account |-> validated.credit_account, execute_by |-> validated.execute_by,
   status |-> validated.status, status_reason |-> validated.status_reason,
   status_code |-> validated.status_code, accounts |-> view]

(* the balance the success branch computes for one involved account *)
NewBalance(validated, account) ==
  IF account.id = validated.debit_account
  THEN NumSub(account.balance, validated.amount)
  ELSE IF account.id = validated.credit_account
  THEN NumAdd(account.balance, validated.amount)
  ELSE account.balance

(* executeTransaction raises a TypeError when the filter reads .id of a null *)
(* element or when an involved account has no string currency to upper-case *)
executeTransactionThrows(validated, accts) ==
  /\ Truthy(validated.debit_account) \/ Truthy(validated.credit_account)
  /\ \/ \E i \in 1..Len(accts) : accts[i] = NullElement
     \/ LET involvedAccounts == getInvolvedAccounts(validated, accts)
        IN \E i \in 1..Len(involvedAccounts) :
             involvedAccounts[i].currency \in {Undefined, Null}

(* the value executeTransaction returns when it does not raise *)
executeTransaction(validated, accts) ==
  LET involvedAccounts == getInvolvedAccounts(validated, accts) IN
  IF validated.status \in {TRANSACTION_STATUS.PENDING, TRANSACTION_STATUS.FAILED}
  THEN WithAccounts(validated,
         [i \in 1..Len(involvedAccounts) |->
            [id |-> involvedAccounts[i].id,
             balance |-> involvedAccounts[i].balance,
             balance_before |-> involvedAccounts[i].balance,
             currency |-> ToUpperCase(involvedAccounts[i].currency)]])
  ELSE WithAccounts(validated,
         [i \in 1..Len(involvedAccounts) |->
            [id |-> involvedAccounts[i].id,
             balance |-> NewBalance(validated, involvedAccounts[i]),
             balance_before |-> involvedAccounts[i].balance,
             currency |-> ToUpperCase(involvedAccounts[i].currency)]])

(* a variant that writes the new balances into the caller's objects *)
AccountsAfterExecuteInPlace(validated, accts) ==
  IF validated.status = TRANSACTION_STATUS.SUCCESSFUL
  THEN [i \in 1..Len(accts) |->
          IF accts[i] = NullElement THEN accts[i]
          ELSE [accts[i] EXCEPT !.balance = NewBalance(validated, accts[i])]]
  ELSE accts

(* The caller's accounts array after executeTransaction: filter and map     *)
(* build new arrays and new objects and no statement assigns to an element  *)
(* or to a property of one.                                                 *)
AccountsAfterExecute(validated, accts) == accts

-----------------------------------------------------------------------------
(* parser *)

(* a variant that compares the tokens with the keyword as written *)
findKeywordIndexExact(tokens, keyword, startIndex) ==
  LET hits == {i \in startIndex..(Len(tokens) - 1) : tokens[i + 1] = keyword}
  IN IF hits = {} THEN -1 ELSE CHOOSE i \in hits : \A j \in hits : i <= j

(* a variant that finds the last such token *)
findKeywordIndexLast(tokens, keyword, startIndex) ==
  LET hits == {i \in startIndex..(Len(tokens) - 1) : ToUpperCase(tokens[i + 1]) = keyword}
  IN IF hits = {} THEN -1 ELSE CHOOSE i \in hits : \A j \in hits : i >= j

(* 0-based index of the first token at or after startIndex whose upper case *)
(* is the keyword, or -1 *)
findKeywordIndex(tokens, keyword, startIndex) ==
  LET hits == {i \in startIndex..(Len(tokens) - 1) : ToUpperCase(tokens[i + 1]) = keyword}
  IN IF hits = {} THEN -1 ELSE CHOOSE i \in hits : \A j \in hits : i <= j

ParserResult(type) ==
  [type |-> type, amount |-> NumNull, currency |-> Null, debit_account |-> Null,
   credit_account |-> Null, execute_by |-> Null,
   status |-> TRANSACTION_STATUS.FAILED, status_reason |-> "", status_code |-> ""]

parseDebitFormat(tokens) ==
  LET res      == ParserResult(TRANSACTION_TYPES.DEBIT)
      amount   == Number(tokens[2])
      currency == ToUpperCase(tokens[3])
      r2       == [res EXCEPT !.amount = amount, !.currency = currency]
      forIndex == findKeywordIndex(tokens, KEYWORDS.FOR, 5)
      debitAccountTokens == Slice(tokens, 5, forIndex)
      debitAccount == Join(debitAccountTokens)
      r3       == [r2 EXCEPT !.debit_account = debitAccount]
      onIndex  == findKeywordIndex(tokens, KEYWORDS.ON, forIndex + 4)
      creditAccountEndIndex == IF onIndex = -1 THEN Len(tokens) ELSE onIndex
      creditAccountTokens == Slice(tokens, forIndex + 4, creditAccountEndIndex)
      creditAccount == Join(creditAccountTokens)
      r4       == [r3 EXCEPT !.credit_account = creditAccount]
      dateTokens == Slice(tokens, onIndex + 1, Len(tokens))
  IN
  IF Len(tokens) < 11
  THEN [res EXCEPT !.status_code = STATUS_CODES.MALFORMED_INSTRUCTION,
                   !.status_reason = "DEBIT instruction is incomplete"]
  ELSE IF NumberIsNaN(amount)
  THEN [res EXCEPT !.status_code = STATUS_CODES.MALFORMED_INSTRUCTION,
                   !.status_reason = "Invalid or missing amount"]
  ELSE IF ToUpperCase(tokens[4]) # KEYWORDS.FROM
  THEN [r2 EXCEPT !.status_code = STATUS_CODES.INVALID_KEYWORD_ORDER,
                  !.status_reason = "Expected FROM after currency, found: " \o tokens[4]]
  ELSE IF ToUpperCase(tokens[5]) # KEYWORDS.ACCOUNT
  THEN [r2 EXCEPT !.status_code = STATUS_CODES.INVALID_KEYWORD_ORDER,
                  !.status_reason = "Expected ACCOUNT after FROM, found: " \o tokens[5]]
  ELSE IF forIndex = -1
  THEN [r2 EXCEPT !.status_code = STATUS_CODES.MISSING_KEYWORD,
                  !.status_reason = "Missing FOR keyword"]
  ELSE IF Len(debitAccountTokens) = 0
  THEN [r2 EXCEPT !.status_code = STATUS_CODES.MALFORMED_INSTRUCTION,
                  !.status_reason = "Missing debit account ID"]
  ELSE IF OptUpper(At(tokens, forIndex + 1)) # KEYWORDS.CREDIT
  THEN [r3 EXCEPT !.status_code = STATUS_CODES.INVALID_KEYWORD_ORDER,
                  !.status_reason = "Expected CREDIT after FOR, found: "
                                      \o ToStr(At(tokens, forIndex + 1))]
  ELSE IF OptUpper(At(tokens, forIndex + 2)) # KEYWORDS.TO
  THEN [r3 EXCEPT !.status_code = STATUS_CODES.INVALID_KEYWORD_ORDER,
                  !.status_reason = "Expected TO after CREDIT, found: "
                                      \o ToStr(At(tokens, forIndex + 2))]
  ELSE IF OptUpper(At(tokens, forIndex + 3)) # KEYWORDS.ACCOUNT
  THEN [r3 EXCEPT !.status_code = STATUS_CODES.INVALID_KEYWORD_ORDER,
                  !.status_reason = "Expected ACCOUNT after TO, found: "
                                      \o ToStr(At(tokens, forIndex + 3))]
  ELSE IF Len(creditAccountTokens) = 0
  THEN [r3 EXCEPT !.status_code = STATUS_CODES.MALFORMED_INSTRUCTION,
                  !.status_reason = "Missing credit account ID"]
  ELSE IF onIndex # -1 /\ Len(dateTokens) = 0
  THEN [r4 EXCEPT !.status_code = STATUS_CODES.MALFORMED_INSTRUCTION,
                  !.status_reason = "Missing date after ON keyword"]
  ELSE IF onIndex # -1
  THEN [r4 EXCEPT !.execute_by = Join(dateTokens)]
  ELSE r4

(* a variant that reads a CREDIT instruction with the DEBIT grammar *)
parseCreditFormatAsDebit(tokens) == parseDebitFormat(tokens)

parseCreditFormat(tokens) ==
  LET res      == ParserResult(TRANSACTION_TYPES.CREDIT)
      amount   == Number(tokens[2])
      currency == ToUpperCase(tokens[3])
      r2       == [res EXCEPT !.amount = amount, !.currency = currency]
      forIndex == findKeywordIndex(tokens, KEYWORDS.FOR, 5)
      creditAccountTokens == Slice(tokens, 5, forIndex)
      creditAccount == Join(creditAccountTokens)
      r3       == [r2 EXCEPT !.credit_account = creditAccount]
      onIndex  == findKeywordIndex(tokens, KEYWORDS.ON, forIndex + 4)
      debitAccountEndIndex == IF onIndex = -1 THEN Len(tokens) ELSE onIndex
      debitAccountTokens == Slice(tokens, forIndex + 4, debitAccountEndIndex)
      debitAccount == Join(debitAccountTokens)
      r4       == [r3 EXCEPT !.debit_account = debitAccount]
      dateTokens == Slice(tokens, onIndex + 1, Len(tokens))
  IN
  IF Len(tokens) < 11
  THEN [res EXCEPT !.status_code = STATUS_CODES.MALFORMED_INSTRUCTION,
                   !.status_reason = "CREDIT instruction is incomplete"]
  ELSE IF NumberIsNaN(amount)
  THEN [res EXCEPT !.status_code = STATUS_CODES.MALFORMED_INSTRUCTION,
                   !.status_reason = "Invalid or missing amount"]
  ELSE IF ToUpperCase(tokens[4]) # KEYWORDS.TO
  THEN [r2 EXCEPT !.status_code = STATUS_CODES.INVALID_KEYWORD_ORDER,
                  !.status_reason = "Expected TO after currency, found: " \o tokens[4]]
  ELSE IF ToUpperCase(tokens[5]) # KEYWORDS.ACCOUNT
  THEN [r2 EXCEPT !.status_code = STATUS_CODES.INVALID_KEYWORD_ORDER,
                  !.status_reason = "Expected ACCOUNT after TO, found: " \o tokens[5]]
  ELSE IF forIndex = -1
  THEN [r2 EXCEPT !.status_code = STATUS_CODES.MISSING_KEYWORD,
                  !.status_reason = "Missing FOR keyword"]
  ELSE IF Len(creditAccountTokens) = 0
  THEN [r2 EXCEPT !.status_code = STATUS_CODES.MALFORMED_INSTRUCTION,
                  !.status_reason = "Missing credit account ID"]
  ELSE IF OptUpper(At(tokens, forIndex + 1)) # KEYWORDS.DEBIT
  THEN [r3 EXCEPT !.status_code = STATUS_CODES.INVALID_KEYWORD_ORDER,
                  !.status_reason = "Expected DEBIT after FOR, found: "
                                      \o ToStr(At(tokens, forIndex + 1))]
  ELSE IF OptUpper(At(tokens, forIndex + 2)) # KEYWORDS.FROM
  THEN [r3 EXCEPT !.status_code = STATUS_CODES.INVALID_KEYWORD_ORDER,
                  !.status_reason = "Expected FROM after DEBIT, found: "
                                      \o ToStr(At(tokens, forIndex + 2))]
  ELSE IF OptUpper(At(tokens, forIndex + 3)) # KEYWORDS.ACCOUNT
  THEN [r3 EXCEPT !.status_code = STATUS_CODES.INVALID_KEYWORD_ORDER,
                  !.status_reason = "Expected ACCOUNT after FROM, found: "
                                      \o ToStr(At(tokens, forIndex + 3))]
  ELSE IF Len(debitAccountTokens) = 0
  THEN [r3 EXCEPT !.status_code = STATUS_CODES.MALFORMED_INSTRUCTION,
                  !.status_reason = "Missing debit account ID"]
  ELSE IF onIndex # -1 /\ Len(dateTokens) = 0
  THEN [r4 EXCEPT !.status_code = STATUS_CODES.MALFORMED_INSTRUCTION,
                  !.status_reason = "Missing date after ON keyword"]
  ELSE IF onIndex # -1
  THEN [r4 EXCEPT !.execute_by = Join(dateTokens)]
  ELSE r4

(* a truthy instruction value that is not a string (a number, an object):   *)
(* it has no trim method, so the try block raises a TypeError               *)
NonString == "<non-string>"

IsString(x) == x \notin {Null, Undefined, NonString}

(* a variant of the catch block that leaves the record without a code *)
ParserCaughtWithoutCode == ParserResult(Null)

(* the record built in the catch block *)
ParserCaught ==
  [ParserResult(Null) EXCEPT !.status_reason = STATUS_MESSAGES.SY03,
                             !.status_code = STATUS_CODES.MALFORMED_INSTRUCTION]

parseInstruction(instr) ==
  IF ~IsString(instr) THEN ParserCaught
  ELSE
  LET normalized   == CollapseSpaces(Trim(instr))
      tokens       == Split(normalized)
      errorResult  == ParserResult(Null)
      firstKeyword == ToUpperCase(tokens[1])
  IN
  IF Len(tokens) = 0 \/ normalized = ""
  THEN [errorResult EXCEPT !.status_code = STATUS_CODES.MALFORMED_INSTRUCTION,
                           !.status_reason = STATUS_MESSAGES.SY03]
  ELSE IF firstKeyword = KEYWORDS.DEBIT THEN parseDebitFormat(tokens)
  ELSE IF firstKeyword = KEYWORDS.CREDIT THEN parseCreditFormat(tokens)
  ELSE [errorResult EXCEPT !.status_code = STATUS_CODES.MISSING_KEYWORD,
          !.status_reason = "Expected instruction to start with DEBIT or CREDIT, found: "
                              \o tokens[1]]

-----------------------------------------------------------------------------
(* Inputs *)

(* largest balance a drawn account holds *)
MaxBalance == 3

(* the amount of every well-formed drawn instruction and record *)
AmountText == "2"

(* the shape of an account object: which of the two identifier properties  *)
(* it carries.  The validator and the tests read account_id, the executor  *)
(* and the README's request example read id.                               *)
Shapes == {"account_id", "id", "both"}

Account(shape, name, bal, cur) ==
  [account_id |-> IF shape \in {"account_id", "both"} THEN name ELSE Undefined,
   id         |-> IF shape \in {"id", "both"} THEN name ELSE Undefined,
   balance    |-> N(bal),
   currency   |-> cur]

(* a snapshot holding accounts a and b, in either order *)
Pair(shape, reversed, balA, balB, curA, curB) ==
  IF reversed
  THEN <<Account(shape, "b", balB, curB), Account(shape, "a", balA, curA)>>
  ELSE <<Account(shape, "a", balA, curA), Account(shape, "b", balB, curB)>>

(* well-formed snapshots: every element an object with a string identifier, *)
(* an integer balance and a string currency                                 *)
ValidatorSnapshots ==
  { Pair("account_id", FALSE, ba, 1, cur[1], cur[2]) :
      ba \in 0..MaxBalance,
      cur \in {<<"USD", "USD">>, <<"USD", "GBP">>, <<"GBP", "GBP">>} }
  \cup { <<Account("account_id", "a", 2, "USD")>>,
         <<Account("account_id", "b", 2, "USD")>>,
         Pair("account_id", FALSE, 2, 1, "usd", "usd"),
         Pair("account_id", TRUE, 2, 1, "usd", "USD") }

ExecutorSnapshots ==
  { Pair(sh, rev, ba, 1, cur, cur) :
      sh \in Shapes, rev \in BOOLEAN, ba \in 0..MaxBalance, cur \in {"USD", "usd"} }
  \cup { <<>>,
         <<Account("account_id", "b", 1, "USD")>>,
         <<Account("id", "b", 1, "USD")>>,
         <<Account("id", "z", 3, "USD"), Account("id", "a", 2, "USD"),
           Account("id", "b", 1, "USD")>>,
         <<Account("both", "z", 3, "USD"), Account("both", "a", 2, "USD"),
           Account("both", "b", 1, "USD")>> }

PipelineSnapshots ==
  { Pair(sh, rev, ba, 1, cur, cur) :
      sh \in Shapes, rev \in BOOLEAN, ba \in 0..MaxBalance, cur \in {"USD", "usd"} }

(* snapshots storing the currency in mixed case *)
MixedCaseSnapshots ==
  { Pair("both", FALSE, 2, 1, "Usd", "Usd"),
    Pair("account_id", FALSE, 2, 1, "usd", "Usd"),
    Pair("both", TRUE, MaxBalance, 1, "uSD", "uSD") }

(* arrays the transport layer lets through (Array.isArray is its only test) *)
(* whose elements are not account objects                                   *)
MalformedArrays ==
  { <<NullElement>>,
    <<Account("both", "a", 2, Undefined), Account("both", "b", 1, Undefined)>>,
    <<Account("both", "a", 2, "USD"), NullElement>> }

(* new Date() at the time of the call, as a UTC calendar date *)
Nows == { [year |-> 2026, month |-> 12, day |-> 31],
          [year |-> 2027, month |-> 1, day |-> 1] }

DateTexts == {"2026-12-31", "2027-01-01", "2026-02-30"}

DebitText(amt, cur, debit, credit, dateClause) ==
  "DEBIT " \o amt \o " " \o cur \o " FROM ACCOUNT " \o debit
    \o " FOR CREDIT TO ACCOUNT " \o credit \o dateClause

CreditText(amt, cur, debit, credit, dateClause) ==
  "CREDIT " \o amt \o " " \o cur \o " TO ACCOUNT " \o credit
    \o " FOR DEBIT FROM ACCOUNT " \o debit \o dateClause

GrammarInstructions ==
  LET args == [amt : {AmountText, "-1"}, cur : {"USD", "usd"},
               ids : {<<"a", "b">>, <<"a", "c">>},
               on  : {""} \cup {" ON " \o d : d \in DateTexts}]
  IN { DebitText(x.amt, x.cur, x.ids[1], x.ids[2], x.on) : x \in args }
     \cup { CreditText(x.amt, x.cur, x.ids[1], x.ids[2], x.on) : x \in args }

OtherInstructions ==
  { "", "   ", NonString,
    "SEND 2 USD FROM ACCOUNT a FOR CREDIT TO ACCOUNT b",
    "DEBIT 2 USD",
    "DEBIT abc USD FROM ACCOUNT a FOR CREDIT TO ACCOUNT b",
    "DEBIT 2 USD TO ACCOUNT a FOR CREDIT FROM ACCOUNT b",
    "DEBIT 2 USD FROM ACCT a FOR CREDIT TO ACCOUNT b",
    "DEBIT 2 USD FROM ACCOUNT a b c d e f",
    "DEBIT 2 USD FROM ACCOUNT FOR CREDIT TO ACCOUNT b c d",
    "DEBIT 2 USD FROM ACCOUNT a FOR DEBIT TO ACCOUNT b",
    "CREDIT 2 USD TO ACCOUNT b FOR DEBIT TO ACCOUNT a",
    "DEBIT 2 USD FROM ACCOUNT a FOR CREDIT TO ACCOUNT b ON",
    "DEBIT 2 USD FROM ACCOUNT a b FOR CREDIT TO ACCOUNT b",
    "debit 2 usd from account a for credit to account b",
    "  DEBIT  2 USD\tFROM ACCOUNT a FOR CREDIT TO ACCOUNT b  ",
    "DEBIT 2 USD FROM ACCOUNT constructor FOR CREDIT TO ACCOUNT b",
    "DEBIT 1.5 USD FROM ACCOUNT a FOR CREDIT TO ACCOUNT b",
    "DEBIT 2 EUR FROM ACCOUNT a FOR CREDIT TO ACCOUNT b" }

Instructions == GrammarInstructions \cup OtherInstructions

(* records handed to validateInstruction directly: not yet terminal *)
ValidatorRecords ==
  { [type |-> "DEBIT", amount |-> amt, currency |-> cur, debit_account |-> d,
     credit_account |-> c, execute_by |-> on,
     status |-> TRANSACTION_STATUS.FAILED, status_reason |-> "", status_code |-> ""] :
      amt \in {Number(AmountText), N(-1), N(0), Rat(15, 10), NumNull},
      cur \in {"USD", "GBP", "EUR"},
      d   \in {"a", "c", "x#", "constructor"},
      c   \in {"b", "a", "c", "x#", "valueOf"},
      on  \in {Null} \cup DateTexts }

(* records for the amount rule: more amounts, fewer other fields *)
AmountRecords ==
  { [type |-> "CREDIT", amount |-> amt, currency |-> cur, debit_account |-> d,
     credit_account |-> "b", execute_by |-> on,
     status |-> TRANSACTION_STATUS.FAILED, status_reason |-> "", status_code |-> ""] :
      amt \in {NumUndefined, NaN, Infinity(1), Infinity(-1), N(1), N(MaxBalance),
               N(1000), Rat(5, 10), Rat(-15, 10)},
      cur \in {"USD", "EUR"},
      d   \in {"a", "x#"},
      on  \in {Null, "2026-02-30"} }

(* execute_by values for the date rule: the malformed and impossible dates *)
(* of the validator's tests, real dates from year 0 to year 9999, and the   *)
(* empty string                                                             *)
ValidatorDateTexts ==
  { "20-09-2026", "2026-09", "2026-13-45", "2026-02-30", "2026-04-31",
    "2023-02-29", "2024-02-29", "1900-02-29", "2000-02-29", "2026-09-20",
    "2026-00-10", "2026-01-00", "2026-1-01", "2026/01/01", "2026-12-31 ",
    "next week", "", "0000-01-01", "0050-01-01", "0099-12-31", "0100-01-01",
    "9999-12-31" }

(* records for the date rule: everything but execute_by is valid *)
DatedRecords ==
  { [type |-> "DEBIT", amount |-> Number(AmountText), currency |-> "USD",
     debit_account |-> "a", credit_account |-> "b", execute_by |-> on,
     status |-> TRANSACTION_STATUS.FAILED, status_reason |-> "", status_code |-> ""] :
      on \in ValidatorDateTexts }

(* records for the currency rules: the instruction currency in several     *)
(* spellings                                                               *)
CurrencyRecords ==
  { [type |-> "DEBIT", amount |-> Number(AmountText), currency |-> cur,
     debit_account |-> d, credit_account |-> c, execute_by |-> on,
     status |-> TRANSACTION_STATUS.FAILED, status_reason |-> "", status_code |-> ""] :
      cur \in {"usd", "Usd", "GBP"},
      d   \in {"a", "b", "constructor"},
      c   \in {"b", "valueOf"},
      on  \in {Null, "2027-01-01", "2026-02-30"} }

(* every status with every code the pipeline pairs it with *)
Outcomes ==
  { <<TRANSACTION_STATUS.SUCCESSFUL, "AP00">>, <<TRANSACTION_STATUS.PENDING, "AP02">> }
  \cup { <<TRANSACTION_STATUS.FAILED, code>> :
           code \in {"AM01", "CU01", "CU02", "AC01", "AC02", "AC03", "AC04", "DT01",
                     "SY01", "SY02", "SY03"} }

(* records handed to executeTransaction directly *)
ExecutorRecords ==
  { [type |-> ty, amount |-> Number(AmountText), currency |-> "USD",
     debit_account |-> d, credit_account |-> c, execute_by |-> Null,
     status |-> o[1], status_reason |-> Undefined, status_code |-> o[2]] :
      ty \in {"DEBIT", "CREDIT"}, d \in {"a", "c", Null}, c \in {"b", "a"},
      o \in Outcomes }

(* terminal records handed to validateInstruction directly *)
TerminalRecords ==
  { [r EXCEPT !.status_reason = "given"] : r \in ExecutorRecords }

(* texts handed to parseInstruction directly: both grammars over amounts,   *)
(* currencies, one- and two-token identifiers and date clauses, and the    *)
(* malformed texts of the parser's error-handling tests                    *)
ParserGrammarArgs ==
  [amt : {AmountText, "-1", "1.5", "1e3"}, cur : {"USD", "usd", "xyz"},
   ids : {<<"a", "b">>, <<"b", "a">>, <<"x y", "b">>, <<"a", "a">>},
   on  : {"", " ON 2026-12-31", " on next week"}]

ParserGrammarTexts ==
  { DebitText(x.amt, x.cur, x.ids[1], x.ids[2], x.on) : x \in ParserGrammarArgs }
  \cup { CreditText(x.amt, x.cur, x.ids[1], x.ids[2], x.on) : x \in ParserGrammarArgs }

ParserErrorTexts ==
  { "\t", " \n ", Null, Undefined,
    "DEBIT", "SEND", "TRANSFER abc",
    "SEND abc USD TO ACCT a FOR DEBIT FROM ACCOUNT b c",
    "DEBIT 100 USD FROM ACCOUNT a CREDIT TO ACCOUNT b",
    "DEBIT 2 USD TO ACCT a FOR CREDIT TO b",
    "credit abc usd",
    "DEBIT abc USD TO ACCT a FOR DEBIT FROM ACCOUNT b",
    "CREDIT 2x USD TO ACCOUNT b FOR DEBIT FROM ACCOUNT a",
    "credit 2 usd to account b for debit from account a",
    "CREDIT 2 USD TO ACCOUNT b c d e f g",
    "CREDIT 2 USD TO ACCOUNT FOR DEBIT FROM ACCOUNT a b c",
    "CREDIT 2 USD FROM ACCOUNT b FOR DEBIT FROM ACCOUNT a",
    "CREDIT 2 USD TO ACCOUNT b FOR DEBIT FROM ACCOUNT ON 2026-12-31",
    "CREDIT 2 USD TO ACCOUNT b FOR DEBIT FROM ACCOUNT a ON",
    "DEBIT 2 USD FROM ACCOUNT a FOR CREDIT TO ACCOUNT",
    "DEBIT 2 USD FROM ACCOUNT a b c d FOR CREDIT" }

(* texts of eleven words or more whose fixed keywords fail at each of the   *)
(* five places the parser checks, alone and together with later faults     *)
KeywordTexts ==
  { "DEBIT 2 usd TO ACCOUNT a FOR CREDIT TO ACCOUNT b",
    "DEBIT 2 USD TO ACCOUNT a b c d e f",
    "DEBIT 2 USD TO ACCT a FOR DEBIT FROM ACCOUNT b",
    "debit 1.5 usd from acct a for credit to account b on 2026-12-31",
    "debit 2 usd from account x y for debit to account b",
    "DEBIT 2 USD FROM ACCOUNT a FOR CREDIT FROM ACCOUNT b",
    "DEBIT 2 USD FROM ACCOUNT a FOR CREDIT TO ACCT b ON 2026-12-31",
    "DEBIT 2 USD FROM ACCOUNT a FOR FOR CREDIT TO ACCOUNT b",
    "DEBIT 2 USD FROM ACCOUNT a b c d e FOR",
    "DEBIT 2 USD FROM ACCOUNT a b c FOR CREDIT TO",
    "CREDIT 2 USD ACCOUNT TO b FOR DEBIT FROM ACCOUNT a",
    "CREDIT 2 USD TO TO b FOR DEBIT FROM ACCOUNT a",
    "credit -1 usd to account X y for credit from account a",
    "CREDIT 2 USD TO ACCOUNT b FOR DEBIT TO ACCOUNT a ON 2026-12-31",
    "CREDIT 2 USD TO ACCOUNT b FOR DEBIT FROM ACCT a" }

(* the spellings of the keywords, and the whitespace around the words, of   *)
(* the parser's case and spacing tests                                      *)
KeywordSpellings ==
  [upper |-> [DEBIT |-> "DEBIT", CREDIT |-> "CREDIT", FROM |-> "FROM", TO |-> "TO",
              ACCOUNT |-> "ACCOUNT", FOR |-> "FOR", ON |-> "ON"],
   lower |-> [DEBIT |-> "debit", CREDIT |-> "credit", FROM |-> "from", TO |-> "to",
              ACCOUNT |-> "account", FOR |-> "for", ON |-> "on"],
   mixed |-> [DEBIT |-> "Debit", CREDIT |-> "cReDiT", FROM |-> "fRom", TO |-> "tO",
              ACCOUNT |-> "AccounT", FOR |-> "For", ON |-> "oN"]]

Spacings ==
  [plain  |-> [lead |-> "",   sep |-> " ",     trail |-> ""],
   padded |-> [lead |-> "  ", sep |-> " ",     trail |-> " \t"],
   wide   |-> [lead |-> "",   sep |-> "   ",   trail |-> ""],
   tabbed |-> [lead |-> "\n", sep |-> " \t ", trail |-> "\n"]]

(* an instruction of either grammar written with one spelling of the        *)
(* keywords and one spacing; swapped writes the fixed keywords of the other *)
(* grammar after the opener                                                 *)
StyledText(x) ==
  LET k    == KeywordSpellings[x.style]
      s    == Spacings[x.spacing].sep
      own  == IF x.swapped THEN (IF x.type = "DEBIT" THEN "CREDIT" ELSE "DEBIT") ELSE x.type
      head == IF own = "DEBIT" THEN k.FROM ELSE k.TO
      mid  == IF own = "DEBIT" THEN k.CREDIT \o s \o k.TO ELSE k.DEBIT \o s \o k.FROM
  IN Spacings[x.spacing].lead
       \o k[x.type] \o s \o x.amt \o s \o x.cur \o s \o head \o s \o k.ACCOUNT
       \o s \o x.ids[1] \o s \o k.FOR \o s \o mid \o s \o k.ACCOUNT \o s \o x.ids[2]
       \o (IF x.on = "" THEN "" ELSE s \o k.ON \o s \o x.on)
       \o Spacings[x.spacing].trail

StyledArgs ==
  [type : {"DEBIT", "CREDIT"}, swapped : BOOLEAN,
   style : DOMAIN KeywordSpellings, spacing : DOMAIN Spacings,
   amt : {AmountText, "abc"}, cur : {"USD", "usd", "Usd"},
   ids : {<<"a", "B">>, <<"x Y", "b">>}, on : {"", "Next Week"}]

StyledTexts == { StyledText(x) : x \in StyledArgs }

(* texts whose first five words are valid: FOR absent, FOR right after      *)
(* ACCOUNT, FOR after one or several identifier words, a second FOR, and a  *)
(* word spelled 'for' inside the first identifier                           *)
ForTexts ==
  { "DEBIT 2 USD FROM ACCOUNT a b c d e f g",
    "DEBIT 2 USD FROM ACCOUNT a CREDIT TO ACCOUNT b ON 2026-12-31",
    "CREDIT 2 USD TO ACCOUNT b DEBIT FROM ACCOUNT a fork",
    "DEBIT 2 USD FROM ACCOUNT FOR CREDIT TO ACCOUNT b ON 2026-12-31",
    "DEBIT 2 USD FROM ACCOUNT for x FOR CREDIT TO ACCOUNT b",
    "credit 2 usd to account For debit from account a b c",
    "DEBIT 2 USD FROM ACCOUNT x For y FOR CREDIT TO ACCOUNT b",
    "DEBIT 2 USD FROM ACCOUNT x y z FOR CREDIT TO ACCOUNT b",
    "DEBIT 2 USD FROM ACCOUNT x FOR CREDIT TO ACCOUNT for FOR",
    "CREDIT 2 USD TO ACCOUNT x y Z for DEBIT FROM ACCOUNT a ON 2026-12-31",
    "CREDIT 2 USD TO ACCOUNT b fOr FOR DEBIT FROM ACCOUNT a",
    "CREDIT 2 USD TO ACCOUNT b FOR DEBIT FROM ACCOUNT ON 2026-12-31 x",
    "DEBIT 2 USD FROM ACCOUNT a b c d e FOR CREDIT" }

(* texts valid up to the continuation keywords: no second identifier, ON    *)
(* right after the continuation, ON as the last word, several words before  *)
(* and after ON, a second ON, and a date that is no date                    *)
SecondIdTexts ==
  { "DEBIT 2 USD FROM ACCOUNT a b FOR CREDIT TO ACCOUNT",
    "CREDIT 2 USD TO ACCOUNT b c FOR DEBIT FROM ACCOUNT",
    "DEBIT 2 USD FROM ACCOUNT a FOR CREDIT TO ACCOUNT on 2026-12-31",
    "credit 2 usd to account b for debit from account on",
    "DEBIT 2 USD FROM ACCOUNT a FOR CREDIT TO ACCOUNT b c On",
    "DEBIT 2 USD FROM ACCOUNT a FOR CREDIT TO ACCOUNT b c",
    "DEBIT 2 USD FROM ACCOUNT a FOR CREDIT TO ACCOUNT one",
    "DEBIT 2 USD FROM ACCOUNT a FOR CREDIT TO ACCOUNT b ON 2026-12-31 ON x",
    "CREDIT 2 USD TO ACCOUNT b FOR DEBIT FROM ACCOUNT a On ON",
    "CREDIT 2 USD TO ACCOUNT b FOR DEBIT FROM ACCOUNT x Y oN 31-12-2026 Noon" }

(* texts whose amount word Number() reads as an infinity *)
InfiniteAmountTexts ==
  { "DEBIT Infinity USD FROM ACCOUNT a FOR CREDIT TO ACCOUNT b",
    "CREDIT -Infinity usd TO ACCOUNT b FOR DEBIT FROM ACCOUNT a ON 2026-12-31" }

ParserInstructions ==
  Instructions \cup ParserGrammarTexts \cup ParserErrorTexts \cup KeywordTexts
    \cup StyledTexts \cup ForTexts \cup SecondIdTexts \cup InfiniteAmountTexts

(* parseInstruction on every drawn instruction, evaluated once *)
Parsed == [instr \in ParserInstructions |-> parseInstruction(instr)]

-----------------------------------------------------------------------------
(* State machine.  pc is the position inside the call in progress, entry    *)
(* the function the caller entered; accounts is the caller's array as the   *)
(* heap holds it, accounts0 its value when the call was made.               *)

None == [none |-> TRUE]

(* helpers.http_statuses, by name *)
http_statuses ==
  [HTTP_400_BAD_REQUEST |-> "HTTP_400_BAD_REQUEST", HTTP_200_OK |-> "HTTP_200_OK"]

(* a value of the decoded request, by its kind: undefined, null, an array   *)
(* with its items, or an object with its properties                         *)
JsUndefined == [is |-> "undefined"]

JsNull == [is |-> "null"]

JsArray(items) == [is |-> "array", items |-> items]

(* a truthy accounts value that is not an array *)
NotAnArray == [is |-> "object"]

JsBody(instr, accts) == [is |-> "object", instruction |-> instr, accounts |-> accts]

(* !payload || !payload.instruction || !payload.accounts; an array, even   *)
(* an empty one, is truthy                                                  *)
PayloadIncomplete(p) ==
  \/ p.is \in {"undefined", "null"}
  \/ ~(p.instruction = NonString \/ Truthy(p.instruction))
  \/ p.accounts.is \in {"undefined", "null"}

(* Array.isArray(payload.accounts) *)
ArrayIsArray(x) == x.is = "array"

(* the response the handler builds itself *)
Rejection(reason) ==
  [status |-> http_statuses.HTTP_400_BAD_REQUEST,
   data   |-> [type |-> Null, amount |-> NumNull, currency |-> Null,
               debit_account |-> Null, credit_account |-> Null, execute_by |-> Null,
               status |-> TRANSACTION_STATUS.FAILED, status_reason |-> reason,
               status_code |-> "SY03", accounts |-> <<>>]]

(* the transport status for a result of the core *)
httpStatus(res) ==
  IF res.status = TRANSACTION_STATUS.FAILED
  THEN http_statuses.HTTP_400_BAD_REQUEST
  ELSE http_statuses.HTTP_200_OK

(* request bodies: none, ones lacking a property, ones whose accounts is   *)
(* no array, and complete ones                                              *)
HandlerInstructions ==
  { Undefined, Null, "", NonString, "   ", "SEND",
    DebitText(AmountText, "USD", "a", "b", ""),
    CreditText(AmountText, "usd", "a", "b", " ON 2027-01-01"),
    DebitText(AmountText, "USD", "a", "c", "") }

HandlerAccounts ==
  { JsUndefined, JsNull, NotAnArray, JsArray(<<>>) }
  \cup { JsArray(Pair(sh, FALSE, ba, 1, "USD", "USD")) : sh \in {"id", "both"}, ba \in {1, 2} }
  \cup { JsArray(a) : a \in MalformedArrays }

HandlerBodies ==
  { JsUndefined, JsNull }
  \cup { JsBody(i, a) : i \in HandlerInstructions, a \in HandlerAccounts }

Init ==
  /\ pc = "idle"
  /\ entry = "none"
  /\ instruction = Null
  /\ accounts = <<>>
  /\ accounts0 = <<>>
  /\ now = CHOOSE n \in Nows : TRUE
  /\ parsedData = None
  /\ validatedData = None
  /\ result = None
  /\ threw = FALSE
  /\ payload = JsUndefined
  /\ response = None
  /\ calls = 0
  /\ trace = <<>>

(* a request reaches the handler: rc.body is the decoded payload *)
CallHandler ==
  /\ pc = "idle"
  /\ \E p \in HandlerBodies, n \in Nows :
       /\ payload' = p
       /\ now' = n
  /\ entry' = "handler"
  /\ pc' = "handle"
  /\ UNCHANGED <<instruction, accounts, accounts0, parsedData, validatedData, result,
                 threw, response, calls, trace>>

(* the handler's two payload checks, then the call of the core *)
Handle ==
  /\ pc = "handle"
  /\ IF PayloadIncomplete(payload)
     THEN /\ response' = Rejection("Request must include instruction and accounts")
          /\ pc' = "done"
          /\ UNCHANGED <<instruction, accounts, accounts0, calls>>
     ELSE IF ~ArrayIsArray(payload.accounts)
     THEN /\ response' = Rejection("Accounts must be an array")
          /\ pc' = "done"
          /\ UNCHANGED <<instruction, accounts, accounts0, calls>>
     ELSE /\ instruction' = payload.instruction
          /\ accounts' = payload.accounts.items
          /\ accounts0' = payload.accounts.items
          /\ calls' = calls + 1
          /\ pc' = "parse"
          /\ UNCHANGED response
  /\ UNCHANGED <<entry, now, parsedData, validatedData, result, threw, payload, trace>>

(* the handler maps the core's status and returns its result as the data *)
Respond ==
  /\ pc = "respond"
  /\ response' = [status |-> httpStatus(result), data |-> result]
  /\ pc' = "done"
  /\ UNCHANGED <<entry, instruction, accounts, accounts0, now, parsedData,
                 validatedData, result, threw, payload, calls, trace>>

(* processPaymentInstruction({instruction, accounts}) is called *)
CallProcess ==
  /\ pc = "idle"
  /\ \E instr \in Instructions,
        accts \in PipelineSnapshots \cup MixedCaseSnapshots \cup MalformedArrays,
        n \in Nows :
       /\ instruction' = instr
       /\ accounts' = accts
       /\ accounts0' = accts
       /\ now' = n
  /\ entry' = "process"
  /\ pc' = "parse"
  /\ calls' = calls + 1
  /\ UNCHANGED <<parsedData, validatedData, result, threw, payload, response, trace>>

(* parseInstruction(instruction) is called on its own *)
CallParse ==
  /\ pc = "idle"
  /\ \E instr \in ParserInstructions : instruction' = instr
  /\ entry' = "parse"
  /\ pc' = "parse"
  /\ UNCHANGED <<accounts, accounts0, now, parsedData, validatedData, result, threw,
                 payload, response, calls, trace>>

(* validateInstruction(record, accounts) is called on its own *)
CallValidate ==
  /\ pc = "idle"
  /\ \E rec \in ValidatorRecords \cup AmountRecords \cup DatedRecords
                 \cup CurrencyRecords \cup TerminalRecords,
        accts \in ValidatorSnapshots,
        n \in Nows :
       /\ parsedData' = rec
       /\ accounts' = accts
       /\ accounts0' = accts
       /\ now' = n
  /\ entry' = "validate"
  /\ pc' = "validate"
  /\ UNCHANGED <<instruction, validatedData, result, threw, payload, response, calls, trace>>

(* executeTransaction(record, accounts) is called on its own *)
CallExecute ==
  /\ pc = "idle"
  /\ \E rec \in ExecutorRecords, accts \in ExecutorSnapshots :
       /\ validatedData' = rec
       /\ accounts' = accts
       /\ accounts0' = accts
  /\ entry' = "execute"
  /\ pc' = "execute"
  /\ UNCHANGED <<instruction, now, parsedData, result, threw, payload, response, calls, trace>>

(* the record of a stage's run: the stage and the array it was handed *)
Ran(stage, accts) == [stage |-> stage, accounts |-> accts]

(* Step 1: const parsedData = parseInstruction(instruction) *)
Parse ==
  /\ pc = "parse"
  /\ parsedData' = Parsed[instruction]
  /\ pc' = IF entry = "parse" THEN "done" ELSE "validate"
  /\ trace' = Append(trace, Ran("parse", <<>>))
  /\ UNCHANGED <<entry, instruction, accounts, accounts0, now, validatedData, result, threw,
                 payload, response, calls>>

(* Step 2: const validatedData = validateInstruction(parsedData, accounts) *)
Validate ==
  /\ pc = "validate"
  /\ IF validateInstructionThrows(parsedData, accounts)
     THEN /\ threw' = TRUE
          /\ pc' = "done"
          /\ UNCHANGED validatedData
     ELSE /\ validatedData' = validateInstruction(parsedData, accounts, now)
          /\ pc' = IF entry = "validate" THEN "done" ELSE "execute"
          /\ UNCHANGED threw
  /\ trace' = Append(trace, Ran("validate", accounts))
  /\ UNCHANGED <<entry, instruction, accounts, accounts0, now, parsedData, result,
                 payload, response, calls>>

(* Step 3: const result = executeTransaction(validatedData, accounts); return result *)
Execute ==
  /\ pc = "execute"
  /\ IF executeTransactionThrows(validatedData, accounts)
     THEN /\ threw' = TRUE
          /\ pc' = "done"
          /\ UNCHANGED <<result, accounts>>
     ELSE /\ result' = executeTransaction(validatedData, accounts)
          /\ accounts' = AccountsAfterExecute(validatedData, accounts)
          /\ pc' = IF entry = "handler" THEN "respond" ELSE "done"
          /\ UNCHANGED threw
  /\ trace' = Append(trace, Ran("execute", accounts))
  /\ UNCHANGED <<entry, instruction, accounts0, now, parsedData, validatedData,
                 payload, response, calls>>

Next ==
  \/ CallHandler \/ CallProcess \/ CallParse \/ CallValidate \/ CallExecute
  \/ Handle \/ Parse \/ Validate \/ Execute \/ Respond

Spec == Init /\ [][Next]_vars

-----------------------------------------------------------------------------
(* Vocabulary of the properties.  These definitions state what the          *)
(* specification means by its words; none of them is used by the model of   *)
(* the code above.                                                          *)

Returned == pc = "done" /\ ~threw

(* an account carries the identifier name: identity is account_id *)
HasIdent(account, name) ==
  account # NullElement /\ account.account_id = name

(* the view entry was made from this element of the caller's array *)
MadeFrom(e, account) ==
  /\ account # NullElement
  /\ "id" \in DOMAIN e => account.id = e.id
  /\ "account_id" \in DOMAIN e => account.account_id = e.account_id

Exists(accts, name) == \E i \in 1..Len(accts) : HasIdent(accts[i], name)

Find(accts, name) == accts[CHOOSE i \in 1..Len(accts) : HasIdent(accts[i], name)]

(* every element is an account object with a string currency *)
WellFormed(accts) ==
  \A i \in 1..Len(accts) :
    accts[i] # NullElement /\ accts[i].currency \notin {Undefined, Null}

(* the identifier a view entry shows, under either property *)
EntryIdent(e) ==
  IF "account_id" \in DOMAIN e THEN e.account_id
  ELSE IF "id" \in DOMAIN e THEN e.id ELSE Undefined

(* the account_id property of a view entry *)
EntryAccountId(e) == IF "account_id" \in DOMAIN e THEN e.account_id ELSE Undefined

(* the nine instruction and status fields of two records agree *)
SameFields(r1, r2) ==
  /\ r1.type = r2.type
  /\ r1.amount = r2.amount
  /\ r1.currency = r2.currency
  /\ r1.debit_account = r2.debit_account
  /\ r1.credit_account = r2.credit_account
  /\ r1.execute_by = r2.execute_by
  /\ r1.status = r2.status
  /\ r1.status_code = r2.status_code
  /\ r1.status_reason = r2.status_reason

IsLeapYear(y) == (y % 4 = 0 /\ y % 100 # 0) \/ y % 400 = 0

DaysInMonth(y, m) ==
  IF m = 2 THEN (IF IsLeapYear(y) THEN 29 ELSE 28)
  ELSE IF m \in {4, 6, 9, 11} THEN 30 ELSE 31

(* s is four digits, a hyphen, two digits, a hyphen, two digits *)
WrittenYMD(s) ==
  /\ Len(s) = 10
  /\ CharAt(s, 5) = "-" /\ CharAt(s, 8) = "-"
  /\ \A i \in {1, 2, 3, 4, 6, 7, 9, 10} : CharAt(s, i) \in DigitSet

(* s is written YYYY-MM-DD and names a day of the calendar *)
CalendarDate(s) ==
  /\ WrittenYMD(s)
  /\ LET year  == DigitsValue(SubSeq(s, 1, 4), 0)
         month == DigitsValue(SubSeq(s, 6, 7), 0)
         day   == DigitsValue(SubSeq(s, 9, 10), 0)
     IN month \in 1..12 /\ day \in 1..DaysInMonth(year, month)

(* the execute_by values on which the code's date check departs from the   *)
(* calendar (see C18): the empty string, which is not checked at all, and  *)
(* the years 0000 to 0099, which Date.UTC reads as 1900 to 1999            *)
DateRuleGap(r) ==
  \/ r.execute_by = ""
  \/ r.execute_by # Null /\ WrittenYMD(r.execute_by)
       /\ DigitsValue(SubSeq(r.execute_by, 1, 4), 0) < 100

(* s is written YYYY-MM-DD and names a real calendar date *)
RealDate(s) ==
  /\ DATE_FORMAT_REGEX(s)
  /\ LET p == DateParts(s)
     IN p.month \in 1..12 /\ p.day >= 1 /\ p.day <= DaysInMonth(p.year, p.month)

(* the calendar date s is strictly after the calendar date today *)
StrictlyAfter(s, today) ==
  LET p == DateParts(s)
  IN \/ p.year > today.year
     \/ p.year = today.year /\ p.month > today.month
     \/ p.year = today.year /\ p.month = today.month /\ p.day > today.day

FutureDated(r, today) ==
  r.execute_by # Null /\ RealDate(r.execute_by) /\ StrictlyAfter(r.execute_by, today)

PositiveInteger(x) == x.t = "num" /\ x.den = 1 /\ x.num > 0

WellFormedId(x) == Truthy(x) /\ VALID_ACCOUNT_ID_CHARS(x)

(* the code of the first of rules 1..10 the record fails, or "none" *)
FirstFailing1to10(r, accts) ==
  IF ~PositiveInteger(r.amount) THEN "AM01"
  ELSE IF ~(Truthy(r.currency) /\ ToUpperCase(r.currency) \in SUPPORTED_CURRENCIES)
  THEN "CU02"
  ELSE IF ~WellFormedId(r.debit_account) THEN "AC04"
  ELSE IF ~WellFormedId(r.credit_account) THEN "AC04"
  ELSE IF ~Exists(accts, r.debit_account) THEN "AC03"
  ELSE IF ~Exists(accts, r.credit_account) THEN "AC03"
  ELSE IF r.debit_account = r.credit_account THEN "AC02"
  ELSE IF Find(accts, r.debit_account).currency # Find(accts, r.credit_account).currency
  THEN "CU01"
  ELSE IF r.currency # Find(accts, r.debit_account).currency THEN "CU01"
  ELSE IF r.execute_by # Null /\ ~RealDate(r.execute_by) THEN "DT01"
  ELSE "none"

(* the code of the first of rules 1..11 the record fails, or "none" *)
FirstFailing(r, accts, today) ==
  IF FirstFailing1to10(r, accts) # "none" THEN FirstFailing1to10(r, accts)
  ELSE IF ~FutureDated(r, today)
          /\ NumLess(Find(accts, r.debit_account).balance, r.amount)
  THEN "AC01"
  ELSE "none"

-----------------------------------------------------------------------------
(* Properties *)

(* the instruction is the undated text, in either grammar, moving AmountText *)
(* of currency cur from account d to account c                              *)
UndatedText(instr, cur, d, c) ==
  instr \in { DebitText(AmountText, cur, d, c, ""), CreditText(AmountText, cur, d, c, "") }

(* the snapshot holds both accounts under account_id, they are distinct,    *)
(* both store the currency and the debit balance covers the amount          *)
Fundable(accts, cur, d, c, amount) ==
  /\ d # c
  /\ \E i, j \in 1..Len(accts) :
       /\ accts[i].account_id = d
       /\ accts[j].account_id = c
       /\ accts[i].currency = cur
       /\ accts[j].currency = cur
       /\ NumLeq(amount, accts[i].balance)

(* the view is [debit account after the transfer, credit account after it] *)
TransferView(view, accts, d, c, amount) ==
  /\ Len(view) = 2
  /\ EntryAccountId(view[1]) = d
  /\ view[1].balance_before = Find(accts, d).balance
  /\ view[1].balance = NumSub(Find(accts, d).balance, amount)
  /\ EntryAccountId(view[2]) = c
  /\ view[2].balance_before = Find(accts, c).balance
  /\ view[2].balance = NumAdd(Find(accts, c).balance, amount)

(* C1: processPaymentInstruction on an undated instruction in either        *)
(* grammar, with both accounts present under account_id, distinct, storing  *)
(* the instruction's supported currency and the debit balance covering the  *)
(* amount, returns successful / AP00 and the view [debit account with       *)
(* balance original - amount, credit account with balance original +        *)
(* amount], each entry carrying account_id and balance_before = original.   *)
C1_SuccessfulTransferView ==
  \A cur \in {"USD", "usd"}, d \in {"a", "b", "c"}, c \in {"a", "b", "c"} :
    ( /\ entry = "process"
      /\ pc = "done"
      /\ UndatedText(instruction, cur, d, c)
      /\ WellFormed(accounts0)
      /\ Fundable(accounts0, ToUpperCase(cur), d, c, Number(AmountText)) )
    => /\ ~threw
       /\ result.status = "successful"
       /\ result.status_code = "AP00"
       /\ TransferView(result.accounts, accounts0, d, c, Number(AmountText))

(* what the code does establish in the case of C1: the outcome successful / *)
(* AP00 and the parsed fields                                               *)
C1_OutcomeOnly ==
  \A cur \in {"USD", "usd"}, d \in {"a", "b", "c"}, c \in {"a", "b", "c"} :
    ( /\ entry = "process"
      /\ pc = "done"
      /\ UndatedText(instruction, cur, d, c)
      /\ WellFormed(accounts0)
      /\ Fundable(accounts0, ToUpperCase(cur), d, c, Number(AmountText)) )
    => /\ ~threw
       /\ result.status = "successful"
       /\ result.status_code = "AP00"
       /\ result.debit_account = d
       /\ result.credit_account = c
       /\ result.amount = Number(AmountText)

(* C2: validateInstruction on a record with empty status_code returns the   *)
(* code of the first failing check in the order AM01, CU02, AC04 (debit),   *)
(* AC04 (credit), AC03 (debit), AC03 (credit), AC02, CU01 (accounts), CU01  *)
(* (instruction), DT01, AC01.                                               *)
C2_FirstFailingCheckWins ==
  ( /\ entry = "validate"
    /\ pc = "done"
    /\ parsedData.status_code = ""
    /\ FirstFailing(parsedData, accounts0, now) # "none" )
  => /\ ~threw
     /\ validatedData.status = "failed"
     /\ validatedData.status_code = FirstFailing(parsedData, accounts0, now)

(* the same with the identifiers that name a property of Object.prototype   *)
(* (see C13) and the dates the date check misjudges (see C18) set aside     *)
C2_OutsideTheDefects ==
  ( /\ entry = "validate"
    /\ pc = "done"
    /\ parsedData.status_code = ""
    /\ ~DateRuleGap(parsedData)
    /\ parsedData.debit_account \notin ObjectPrototypeKeys
    /\ parsedData.credit_account \notin ObjectPrototypeKeys
    /\ FirstFailing(parsedData, accounts0, now) # "none" )
  => /\ ~threw
     /\ validatedData.status = "failed"
     /\ validatedData.status_code = FirstFailing(parsedData, accounts0, now)

(* the record executeTransaction was given, in a finished call *)
Executed == pc = "done" /\ entry \in {"execute", "process"} /\ validatedData # None

BothExist(r, accts) ==
  /\ Truthy(r.debit_account)
  /\ Truthy(r.credit_account)
  /\ r.debit_account # r.credit_account
  /\ Exists(accts, r.debit_account)
  /\ Exists(accts, r.credit_account)

(* C3: when the debit and the credit account both exist in the snapshot,    *)
(* the view lists the debit account first and the credit account second,    *)
(* whatever the order of the snapshot and whatever the instruction type.    *)
C3_DebitFirstThenCredit ==
  ( /\ Executed
    /\ WellFormed(accounts0)
    /\ BothExist(validatedData, accounts0) )
  => /\ ~threw
     /\ Len(result.accounts) = 2
     /\ EntryIdent(result.accounts[1]) = validatedData.debit_account
     /\ EntryIdent(result.accounts[2]) = validatedData.credit_account

(* a transfer is visible in the view: some entry's balance moved *)
TransferShown(view) == \E i \in 1..Len(view) : view[i].balance # view[i].balance_before

(* C4: after executeTransaction, and after a whole                          *)
(* processPaymentInstruction call, the caller's array holds the same        *)
(* elements in the same order with the same balance, currency and           *)
(* identifier; the balance updates are on the copies in the view only.      *)
C4_CallerAccountsUntouched ==
  (pc = "done" /\ entry \in {"execute", "process"})
  => /\ accounts = accounts0
     /\ ~threw =>
          \A i \in 1..Len(result.accounts) :
            \E j \in 1..Len(accounts) :
              /\ MadeFrom(result.accounts[i], accounts[j])
              /\ accounts[j].balance = result.accounts[i].balance_before

C4_Witness ==
  /\ Returned
  /\ entry = "process"
  /\ result.status = "successful"
  /\ TransferShown(result.accounts)

Shows(view, name, before, after) ==
  \E i \in 1..Len(view) :
    /\ EntryIdent(view[i]) = name
    /\ view[i].balance_before = before
    /\ view[i].balance = after

(* C6: given a record with status successful whose debit and credit         *)
(* accounts both exist in the snapshot, the view satisfies                  *)
(* new_debit_balance + amount = old_debit_balance and new_credit_balance -  *)
(* amount = old_credit_balance, balance_before being the snapshot balance.  *)
C6_SuccessfulRoundTrip ==
  ( /\ pc = "done"
    /\ entry = "execute"
    /\ validatedData.status = "successful"
    /\ WellFormed(accounts0)
    /\ BothExist(validatedData, accounts0) )
  => /\ ~threw
     /\ \E nd \in {result.accounts[i].balance : i \in 1..Len(result.accounts)} :
          /\ NumAdd(nd, validatedData.amount)
               = Find(accounts0, validatedData.debit_account).balance
          /\ Shows(result.accounts, validatedData.debit_account,
                   Find(accounts0, validatedData.debit_account).balance, nd)
     /\ \E nc \in {result.accounts[i].balance : i \in 1..Len(result.accounts)} :
          /\ NumSub(nc, validatedData.amount)
               = Find(accounts0, validatedData.credit_account).balance
          /\ Shows(result.accounts, validatedData.credit_account,
                   Find(accounts0, validatedData.credit_account).balance, nc)

(* C7: given a record whose status is pending or failed, the view has an    *)
(* entry for each referenced account that exists in the snapshot, every     *)
(* entry has balance = balance_before = the snapshot balance, and status    *)
(* and status_code are returned unchanged.                                  *)
C7_NoTransferUnlessSuccessful ==
  ( /\ pc = "done"
    /\ entry = "execute"
    /\ validatedData.status \in {"pending", "failed"}
    /\ WellFormed(accounts0) )
  => /\ ~threw
     /\ result.status = validatedData.status
     /\ result.status_code = validatedData.status_code
     /\ \A name \in {validatedData.debit_account, validatedData.credit_account} :
          (Truthy(name) /\ Exists(accounts0, name))
          => Shows(result.accounts, name, Find(accounts0, name).balance,
                   Find(accounts0, name).balance)
     /\ \A i \in 1..Len(result.accounts) :
          result.accounts[i].balance = result.accounts[i].balance_before

(* what the code does establish in the case of C7 *)
C7_EntriesUnchanged ==
  ( /\ pc = "done"
    /\ entry = "execute"
    /\ validatedData.status \in {"pending", "failed"}
    /\ WellFormed(accounts0) )
  => /\ ~threw
     /\ result.status = validatedData.status
     /\ result.status_code = validatedData.status_code
     /\ \A i \in 1..Len(result.accounts) :
          result.accounts[i].balance = result.accounts[i].balance_before

(* the record passes rules 1..10 and is dated strictly after today *)
PassesAsFuture(r, accts, today) ==
  /\ r.status_code = ""
  /\ FirstFailing1to10(r, accts) = "none"
  /\ FutureDated(r, today)

(* the record passes rules 1..10 and is dated today or earlier *)
PassesAsDue(r, accts, today) ==
  /\ r.status_code = ""
  /\ FirstFailing1to10(r, accts) = "none"
  /\ r.execute_by # Null
  /\ RealDate(r.execute_by)
  /\ ~StrictlyAfter(r.execute_by, today)

(* the validator's half of C8: pending / AP02, funds not looked at *)
C8_ValidatorPending ==
  ( /\ pc = "done"
    /\ entry = "validate"
    /\ PassesAsFuture(parsedData, accounts0, now) )
  => /\ ~threw
     /\ validatedData.status = "pending"
     /\ validatedData.status_code = "AP02"

(* C8: a record that passes rules 1-10 and is dated strictly after the      *)
(* current UTC date comes back pending / AP02 without the funds check, and  *)
(* the pipeline result keeps execute_by and shows both accounts with        *)
(* balances unchanged.                                                      *)
C8_FutureDatedIsPending ==
  /\ C8_ValidatorPending
  /\ ( /\ pc = "done"
       /\ entry = "process"
       /\ WellFormed(accounts0)
       /\ PassesAsFuture(parsedData, accounts0, now) )
     => /\ ~threw
        /\ result.status = "pending"
        /\ result.status_code = "AP02"
        /\ result.execute_by = parsedData.execute_by
        /\ \A name \in {parsedData.debit_account, parsedData.credit_account} :
             Shows(result.accounts, name, Find(accounts0, name).balance,
                   Find(accounts0, name).balance)

(* the outcome of the funds check on a record that passed rules 1..10 *)
FundsOutcome(r, accts) ==
  IF NumLess(Find(accts, r.debit_account).balance, r.amount)
  THEN <<"failed", "AC01">>
  ELSE <<"successful", "AP00">>

(* the statement of C9 for the records within scope *)
DueDateIsImmediate(scope) ==
  /\ ( /\ pc = "done"
       /\ entry = "validate"
       /\ scope
       /\ PassesAsDue(parsedData, accounts0, now) )
     => /\ ~threw
        /\ <<validatedData.status, validatedData.status_code>>
             = FundsOutcome(parsedData, accounts0)
  /\ ( /\ pc = "done"
       /\ entry = "process"
       /\ scope
       /\ WellFormed(accounts0)
       /\ PassesAsDue(parsedData, accounts0, now) )
     => /\ ~threw
        /\ <<result.status, result.status_code>> = FundsOutcome(parsedData, accounts0)
        /\ result.execute_by = parsedData.execute_by
        /\ result.accounts
             = executeTransaction([validatedData EXCEPT !.execute_by = Null],
                                  accounts0).accounts

(* C9: a record that passes rules 1-10 and is dated today or earlier is not *)
(* future-dated: the validator applies the funds check (AC01 when the debit *)
(* balance is below the amount, successful / AP00 otherwise) and the        *)
(* executor treats the record exactly as it treats the undated one.         *)
C9_DueDateIsImmediate == DueDateIsImmediate(TRUE)

(* the same for the dates from year 0100 on *)
C9_OutsideDateGap == DueDateIsImmediate(~DateRuleGap(parsedData))

(* C10: processPaymentInstruction returns a record and never raises, for    *)
(* every instruction value and every accounts array.                        *)
C10_NeverThrows ==
  (pc = "done" /\ entry = "process")
  => ~threw /\ result.status \in {"successful", "pending", "failed"}

(* the same on the arrays all of whose elements are account objects *)
C10_WellFormedNeverThrows ==
  (pc = "done" /\ entry = "process" /\ WellFormed(accounts0))
  => ~threw /\ result.status \in {"successful", "pending", "failed"}

-----------------------------------------------------------------------------
(* The grammar of the specification, on the words of a text.                *)

SyntaxCodes == {"SY01", "SY02", "SY03"}

(* the value is a text, not null, undefined or another type *)
IsText(x) == x \notin {Null, Undefined, NonString}

(* the words of a text: outer whitespace trimmed, inner runs collapsed *)
Words(text) ==
  LET normalized == CollapseSpaces(Trim(text))
  IN IF normalized = "" THEN <<>> ELSE Split(normalized)

AllDigits(s) == s # "" /\ CharsOf(s) \subseteq DigitSet

UnsignedDecimal(s) ==
  \/ AllDigits(s)
  \/ \E k \in 1..Len(s) :
       /\ CharAt(s, k) = "."
       /\ AllDigits(SubSeq(s, 1, k - 1))
       /\ AllDigits(SubSeq(s, k + 1, Len(s)))

(* a numeric literal: a signed decimal, decimal exponent notation, or a    *)
(* signed Infinity                                                         *)
NumericLiteral(s) ==
  \/ s \in {"Infinity", "+Infinity", "-Infinity"}
  \/ UnsignedDecimal(s)
  \/ Len(s) > 1 /\ CharAt(s, 1) \in {"-", "+"} /\ UnsignedDecimal(SubSeq(s, 2, Len(s)))
  \/ \E k \in 2..(Len(s) - 1) :
       /\ CharAt(s, k) \in {"e", "E"}
       /\ UnsignedDecimal(SubSeq(s, 1, k - 1))
       /\ AllDigits(SubSeq(s, k + 1, Len(s)))

(* word i (counted from 0) is the keyword, in any letter case *)
IsKeyword(w, i, keyword) == i < Len(w) /\ ToUpperCase(w[i + 1]) = keyword

(* the positions (from 0) at or after start that hold the keyword *)
KeywordPositions(w, keyword, start) ==
  {i \in start..(Len(w) - 1) : IsKeyword(w, i, keyword)}

FirstPosition(positions) == CHOOSE i \in positions : \A j \in positions : i <= j

(* the fixed words of each grammar: after the currency, and after FOR *)
GrammarWords ==
  [DEBIT  |-> [first |-> "FROM", second |-> <<"CREDIT", "TO", "ACCOUNT">>],
   CREDIT |-> [first |-> "TO",   second |-> <<"DEBIT", "FROM", "ACCOUNT">>]]

(* the words match one of the two grammars in full *)
StructuralMatch(w) ==
  /\ Len(w) >= 11
  /\ ToUpperCase(w[1]) \in {"DEBIT", "CREDIT"}
  /\ NumericLiteral(w[2])
  /\ LET g    == GrammarWords[ToUpperCase(w[1])]
         fors == KeywordPositions(w, "FOR", 5)
     IN /\ IsKeyword(w, 3, g.first)
        /\ IsKeyword(w, 4, "ACCOUNT")
        /\ fors # {}
        /\ LET f   == FirstPosition(fors)
               ons == KeywordPositions(w, "ON", f + 4)
           IN /\ f > 5
              /\ \A k \in 1..3 : IsKeyword(w, f + k, g.second[k])
              /\ IF ons = {} THEN Len(w) > f + 4
                 ELSE FirstPosition(ons) > f + 4 /\ FirstPosition(ons) < Len(w) - 1

RecordFields ==
  {"type", "amount", "currency", "debit_account", "credit_account", "execute_by",
   "status", "status_reason", "status_code"}

(* parseInstruction, called on its own, has returned *)
ParserReturned == pc = "done" /\ entry = "parse"

(* C11: parseInstruction never raises: every input that is not a full       *)
(* structural match yields status failed with a code in SY01, SY02, SY03,   *)
(* and a non-string instruction is caught and returned as failed / SY03     *)
(* with type, amount, currency, both account ids and execute_by all null.   *)
C11_ParserNeverRaises ==
  ParserReturned
  => /\ ~threw
     /\ DOMAIN parsedData = RecordFields
     /\ ~IsText(instruction)
        => /\ parsedData.status = "failed"
           /\ parsedData.status_code = "SY03"
           /\ parsedData.type = Null
           /\ parsedData.amount = NumNull
           /\ parsedData.currency = Null
           /\ parsedData.debit_account = Null
           /\ parsedData.credit_account = Null
           /\ parsedData.execute_by = Null
     /\ (IsText(instruction) /\ ~StructuralMatch(Words(instruction)))
        => /\ parsedData.status = "failed"
           /\ parsedData.status_code \in SyntaxCodes

C11_Witness ==
  /\ ParserReturned
  /\ instruction = NonString
  /\ parsedData.status_code = "SY03"

(* the converse: a full structural match is never given a syntax code *)
C11_MatchIsAccepted ==
  (ParserReturned /\ IsText(instruction) /\ StructuralMatch(Words(instruction)))
  => parsedData.status_code = ""

ValidatorCodes ==
  {"AM01", "CU01", "CU02", "AC01", "AC02", "AC03", "AC04", "DT01", "AP00", "AP02"}

(* C12: parseInstruction only returns status_code '' or SY01, SY02, SY03;   *)
(* validateInstruction on a record with empty status_code only returns one  *)
(* of AM01, CU01, CU02, AC01, AC02, AC03, AC04, DT01, AP00, AP02, never an  *)
(* SY code; executeTransaction never sets or changes a status_code.         *)
C12_ErrorFamiliesDisjoint ==
  /\ (entry \in {"parse", "process"} /\ parsedData # None)
     => parsedData.status_code \in {""} \cup SyntaxCodes
  /\ ( /\ entry \in {"validate", "process"}
       /\ validatedData # None
       /\ parsedData.status_code = "" )
     => /\ validatedData.status_code \in ValidatorCodes
        /\ validatedData.status_code \notin SyntaxCodes
  /\ (entry \in {"execute", "process"} /\ result # None)
     => result.status_code = validatedData.status_code

C12_Witness ==
  /\ Returned
  /\ entry = "process"
  /\ parsedData.status_code = ""
  /\ validatedData.status_code = "AC01"
  /\ result.status_code = "AC01"

(* the record passes rules 1..4: amount, currency and both identifiers *)
PassesRules1to4(r) ==
  /\ r.status_code = ""
  /\ PositiveInteger(r.amount)
  /\ Truthy(r.currency) /\ ToUpperCase(r.currency) \in SUPPORTED_CURRENCIES
  /\ WellFormedId(r.debit_account)
  /\ WellFormedId(r.credit_account)

ValidatorReturned == pc = "done" /\ entry = "validate"

(* C13: for a record that passes rules 1-4, validateInstruction returns     *)
(* AC03 whenever no account of the snapshot has an account_id equal to the  *)
(* debit identifier, and otherwise AC03 whenever none has an account_id     *)
(* equal to the credit identifier, whatever the identifier's spelling.      *)
C13_MissingAccountIsAC03 ==
  (ValidatorReturned /\ PassesRules1to4(parsedData))
  => /\ ~threw
     /\ ( \/ ~Exists(accounts0, parsedData.debit_account)
          \/ ~Exists(accounts0, parsedData.credit_account) )
        => /\ validatedData.status = "failed"
           /\ validatedData.status_code = "AC03"

(* the same for identifiers that Object.prototype does not define *)
C13_ExceptPrototypeKeys ==
  ( /\ ValidatorReturned
    /\ PassesRules1to4(parsedData)
    /\ parsedData.debit_account \notin ObjectPrototypeKeys
    /\ parsedData.credit_account \notin ObjectPrototypeKeys )
  => /\ ~threw
     /\ ( \/ ~Exists(accounts0, parsedData.debit_account)
          \/ ~Exists(accounts0, parsedData.credit_account) )
        <=> validatedData.status_code = "AC03"

(* every element is an account with a text account_id, no two alike *)
UniquelyKeyed(accts) ==
  /\ WellFormed(accts)
  /\ \A i \in 1..Len(accts) : IsText(accts[i].account_id)
  /\ \A i, j \in 1..Len(accts) :
       accts[i].account_id = accts[j].account_id => i = j

(* the identifiers the record references that the snapshot holds *)
Resolved(r, accts) ==
  {name \in {r.debit_account, r.credit_account} : Truthy(name) /\ Exists(accts, name)}

ExecutorReturned == pc = "done" /\ entry = "execute"

(* C14: for any record and any snapshot with unique identifiers, the view   *)
(* of executeTransaction consists exactly of the snapshot accounts whose    *)
(* identifier is record.debit_account or record.credit_account: two entries *)
(* when both resolve, one when only one side resolves or both ids name the  *)
(* same account, none for an account the instruction does not reference.    *)
C14_ViewIsTheReferencedAccounts ==
  (ExecutorReturned /\ UniquelyKeyed(accounts0))
  => /\ ~threw
     /\ Len(result.accounts) = Cardinality(Resolved(validatedData, accounts0))
     /\ {EntryIdent(result.accounts[i]) : i \in 1..Len(result.accounts)}
          = Resolved(validatedData, accounts0)
     /\ \A i \in 1..Len(result.accounts) :
          result.accounts[i].balance_before
            = Find(accounts0, EntryIdent(result.accounts[i])).balance

(* what the code selects: the elements whose id property is referenced *)
C14_SelectedByIdProperty ==
  (ExecutorReturned /\ WellFormed(accounts0))
  => /\ ~threw
     /\ \A i \in 1..Len(result.accounts) :
          result.accounts[i].id \in {validatedData.debit_account,
                                     validatedData.credit_account}
     /\ Len(result.accounts)
          = Cardinality({j \in 1..Len(accounts0) :
                           /\ Truthy(accounts0[j].id)
                           /\ accounts0[j].id \in {validatedData.debit_account,
                                                   validatedData.credit_account}})

(* the position (from 0) of the first FOR at or after position 5 *)
ForPosition(w) == FirstPosition(KeywordPositions(w, "FOR", 5))

(* the first account identifier of a structural match: the words between *)
(* position 5 and FOR                                                     *)
FirstId(w) == Join(SubSeq(w, 6, ForPosition(w)))

(* the second one: the words after the continuation, up to ON or the end *)
SecondId(w) ==
  LET ons == KeywordPositions(w, "ON", ForPosition(w) + 4)
  IN Join(SubSeq(w, ForPosition(w) + 5,
                 IF ons = {} THEN Len(w) ELSE FirstPosition(ons)))

(* the number an amount text of ParserGrammarArgs denotes *)
AmountDenoted(text) ==
  CASE text = "2"   -> N(2)
    [] text = "-1"  -> N(-1)
    [] text = "1.5" -> Rat(15, 10)
    [] text = "1e3" -> N(1000)

(* C15: on full structural success parseInstruction returns status_code and *)
(* status_reason empty with type the leading keyword; in the DEBIT grammar  *)
(* the first id is debit_account and the second credit_account, in the      *)
(* CREDIT grammar the first is credit_account and the second debit_account; *)
(* so 'DEBIT n C FROM ACCOUNT x FOR CREDIT TO ACCOUNT y' and 'CREDIT n C TO *)
(* ACCOUNT y FOR DEBIT FROM ACCOUNT x' give the same amount, currency,      *)
(* debit_account and credit_account.                                        *)
C15_RolesByGrammar ==
  /\ (ParserReturned /\ IsText(instruction) /\ StructuralMatch(Words(instruction)))
     => LET w == Words(instruction) IN
        /\ parsedData.status_code = ""
        /\ parsedData.status_reason = ""
        /\ parsedData.type = ToUpperCase(w[1])
        /\ parsedData.type = "DEBIT"
           => /\ parsedData.debit_account = FirstId(w)
              /\ parsedData.credit_account = SecondId(w)
        /\ parsedData.type = "CREDIT"
           => /\ parsedData.credit_account = FirstId(w)
              /\ parsedData.debit_account = SecondId(w)
  /\ \A x \in ParserGrammarArgs :
       ( /\ ParserReturned
         /\ instruction \in {DebitText(x.amt, x.cur, x.ids[1], x.ids[2], x.on),
                             CreditText(x.amt, x.cur, x.ids[1], x.ids[2], x.on)} )
       => /\ parsedData.status_code = ""
          /\ parsedData.amount = AmountDenoted(x.amt)
          /\ parsedData.currency = ToUpperCase(x.cur)
          /\ parsedData.debit_account = x.ids[1]
          /\ parsedData.credit_account = x.ids[2]

C15_Witness ==
  /\ ParserReturned
  /\ instruction = CreditText("2", "usd", "x y", "b", " ON 2026-12-31")
  /\ parsedData.type = "CREDIT"
  /\ parsedData.debit_account = "x y"
  /\ parsedData.credit_account = "b"

(* the record passes rules 1..10 and is not dated after today *)
PassesAsImmediate(r, accts, today) ==
  /\ r.status_code = ""
  /\ FirstFailing1to10(r, accts) = "none"
  /\ ~FutureDated(r, today)

(* the validator's half of C16, for the records within scope: AC01 exactly *)
(* when balance < amount                                                   *)
ValidatorFunds(scope) ==
  ( /\ entry \in {"validate", "process"}
    /\ validatedData # None
    /\ scope
    /\ WellFormed(accounts0)
    /\ PassesAsImmediate(parsedData, accounts0, now) )
  => LET balance == Find(accounts0, parsedData.debit_account).balance IN
     /\ validatedData.status_code = "AC01" <=> NumLess(balance, parsedData.amount)
     /\ validatedData.status_code = "AP00" <=> ~NumLess(balance, parsedData.amount)

(* C16: for a record that passes rules 1-10 and is not future-dated,        *)
(* validateInstruction returns AC01 if and only if the debit balance is     *)
(* strictly less than the amount: an amount equal to the balance is         *)
(* accepted (AP00) and the executor leaves the debit account at balance 0.  *)
C16_ExactBalanceIsAccepted ==
  /\ ValidatorFunds(TRUE)
  /\ ( /\ pc = "done"
       /\ entry = "process"
       /\ WellFormed(accounts0)
       /\ PassesAsImmediate(parsedData, accounts0, now)
       /\ Find(accounts0, parsedData.debit_account).balance = parsedData.amount )
     => /\ ~threw
        /\ result.status_code = "AP00"
        /\ Shows(result.accounts, parsedData.debit_account, parsedData.amount, N(0))

(* the validator's half of C16 for the dates from year 0100 on *)
C16_ValidatorFunds == ValidatorFunds(~DateRuleGap(parsedData))

(* validateInstruction has returned a value for a record without a code *)
Validated ==
  /\ entry \in {"validate", "process"}
  /\ validatedData # None
  /\ parsedData.status_code = ""

(* C17: for any record with empty status_code, validateInstruction returns  *)
(* AM01 with status failed if and only if the amount is missing, not a      *)
(* whole number, or not strictly greater than zero, whatever the other      *)
(* fields and the snapshot contain; every positive integer passes rule 1.   *)
C17_AmountRule ==
  Validated
  => /\ validatedData.status_code = "AM01" <=> ~PositiveInteger(parsedData.amount)
     /\ validatedData.status_code = "AM01" => validatedData.status = "failed"

C17_Witness ==
  /\ ValidatorReturned
  /\ parsedData.amount = N(0)
  /\ parsedData.currency = "EUR"
  /\ parsedData.debit_account = "x#"
  /\ validatedData.status_code = "AM01"

(* the record passes rules 1..9, whatever its date *)
PassesRules1to9(r, accts) ==
  /\ r.status_code = ""
  /\ FirstFailing1to10([r EXCEPT !.execute_by = Null], accts) = "none"

(* C18: for a record that passes rules 1-9 and has a non-null execute_by,   *)
(* validateInstruction returns DT01 unless execute_by is four digits,       *)
(* hyphen, two digits, hyphen, two digits and names a real calendar date;   *)
(* every real calendar date written YYYY-MM-DD is accepted.                 *)
C18_DateRule ==
  ( /\ Validated
    /\ PassesRules1to9(parsedData, accounts0)
    /\ parsedData.execute_by # Null )
  => validatedData.status_code = "DT01" <=> ~CalendarDate(parsedData.execute_by)

(* the same for the non-empty texts that do not name a year before 100 *)
C18_OutsideTheGap ==
  ( /\ Validated
    /\ PassesRules1to9(parsedData, accounts0)
    /\ parsedData.execute_by # Null
    /\ ~DateRuleGap(parsedData) )
  => validatedData.status_code = "DT01" <=> ~CalendarDate(parsedData.execute_by)

(* the record passes rules 1..7: rules 1..4, both accounts exist, and they *)
(* are not the same account                                                *)
PassesRules1to7(r, accts) ==
  /\ PassesRules1to4(r)
  /\ Exists(accts, r.debit_account)
  /\ Exists(accts, r.credit_account)
  /\ r.debit_account # r.credit_account

(* the currency the snapshot stores for the account *)
StoredCurrency(accts, name) == Find(accts, name).currency

(* C19: for a record that passes rules 1-7, validateInstruction returns     *)
(* CU01 if the debit and credit accounts' stored currencies differ, or else *)
(* if the instruction's currency differs from the debit account's; hence    *)
(* on every AP00, AP02, AC01 and DT01 outcome the instruction currency      *)
(* equals the stored currency of both the debit and the credit account.     *)
C19_CurrencyRule ==
  /\ (Validated /\ PassesRules1to7(parsedData, accounts0))
     => ( validatedData.status_code = "CU01"
          <=> \/ StoredCurrency(accounts0, parsedData.debit_account)
                   # StoredCurrency(accounts0, parsedData.credit_account)
              \/ parsedData.currency
                   # StoredCurrency(accounts0, parsedData.debit_account) )
  /\ (Validated /\ validatedData.status_code \in {"AP00", "AP02", "AC01", "DT01"})
     => /\ Exists(accounts0, parsedData.debit_account)
        /\ Exists(accounts0, parsedData.credit_account)
        /\ parsedData.currency = StoredCurrency(accounts0, parsedData.debit_account)
        /\ parsedData.currency = StoredCurrency(accounts0, parsedData.credit_account)

C19_Witness ==
  /\ ValidatorReturned
  /\ PassesRules1to7(parsedData, accounts0)
  /\ StoredCurrency(accounts0, parsedData.debit_account)
       = StoredCurrency(accounts0, parsedData.credit_account)
  /\ parsedData.currency # StoredCurrency(accounts0, parsedData.debit_account)
  /\ validatedData.status_code = "CU01"

(* parseInstruction has returned, called on its own or by the pipeline *)
ParserHasReturned == entry \in {"parse", "process"} /\ parsedData # None /\ IsText(instruction)

(* C20: parseInstruction applies its early checks in a fixed order, first   *)
(* failure wins: empty or whitespace-only text gives SY03 with type unset;  *)
(* otherwise a first token other than DEBIT/CREDIT gives SY01 with type     *)
(* unset whatever the token count; otherwise fewer than 11 tokens gives     *)
(* SY03, even when FOR is missing or a fixed keyword is wrong; otherwise a  *)
(* non-numeric amount token gives SY03 before any keyword is checked.       *)
C20_EarlyChecksInOrder ==
  ParserHasReturned
  => LET w == Words(instruction) IN
     IF w = <<>>
     THEN parsedData.status_code = "SY03" /\ parsedData.type = Null
     ELSE IF ToUpperCase(w[1]) \notin {"DEBIT", "CREDIT"}
     THEN parsedData.status_code = "SY01" /\ parsedData.type = Null
     ELSE IF Len(w) < 11
     THEN parsedData.status_code = "SY03"
     ELSE IF ~NumericLiteral(w[2])
     THEN /\ parsedData.status_code = "SY03"
          /\ parsedData.amount = NumNull
          /\ parsedData.currency = Null
     ELSE parsedData.amount # NumNull

C20_Witness ==
  /\ ParserReturned
  /\ instruction = "DEBIT abc USD TO ACCT a FOR DEBIT FROM ACCOUNT b"
  /\ parsedData.status_code = "SY03"

(* the text has eleven words or more, a recognised opener and a numeric     *)
(* amount                                                                   *)
ReachesKeywords(w) ==
  /\ Len(w) >= 11
  /\ ToUpperCase(w[1]) \in {"DEBIT", "CREDIT"}
  /\ NumericLiteral(w[2])

(* the fixed keyword at position 3 or 4 fails to match *)
HeadMismatch(w) ==
  \/ ~IsKeyword(w, 3, GrammarWords[ToUpperCase(w[1])].first)
  \/ ~IsKeyword(w, 4, "ACCOUNT")

(* FOR is found after a non-empty first identifier *)
FirstIdFound(w) ==
  /\ ~HeadMismatch(w)
  /\ KeywordPositions(w, "FOR", 5) # {}
  /\ ForPosition(w) > 5

(* one of the three words right after FOR fails to match *)
TailMismatch(w) ==
  /\ FirstIdFound(w)
  /\ \E k \in 1..3 :
       ~IsKeyword(w, ForPosition(w) + k, GrammarWords[ToUpperCase(w[1])].second[k])

(* the field holding the first / the second account identifier written *)
FirstAccount(r)  == IF r.type = "DEBIT" THEN r.debit_account ELSE r.credit_account

SecondAccount(r) == IF r.type = "DEBIT" THEN r.credit_account ELSE r.debit_account

(* C21: for a text of at least 11 words with a recognised opener and a      *)
(* numeric amount, the first fixed keyword that fails to match in any case  *)
(* (position 3, position 4, or one of the three words right after FOR)      *)
(* yields failed / SY02, and the record carries the fields extracted before *)
(* the mismatch: amount and upper-cased currency always, the first account  *)
(* id when the mismatch is after FOR; the later fields stay null.            *)
C21_FirstKeywordMismatch ==
  (ParserReturned /\ IsText(instruction) /\ ReachesKeywords(Words(instruction)))
  => LET w == Words(instruction) IN
     /\ HeadMismatch(w)
        => /\ parsedData.status = "failed"
           /\ parsedData.status_code = "SY02"
           /\ parsedData.type = ToUpperCase(w[1])
           /\ parsedData.amount = AmountDenoted(w[2])
           /\ parsedData.currency = ToUpperCase(w[3])
           /\ parsedData.debit_account = Null
           /\ parsedData.credit_account = Null
           /\ parsedData.execute_by = Null
     /\ TailMismatch(w)
        => /\ parsedData.status = "failed"
           /\ parsedData.status_code = "SY02"
           /\ parsedData.type = ToUpperCase(w[1])
           /\ parsedData.amount = AmountDenoted(w[2])
           /\ parsedData.currency = ToUpperCase(w[3])
           /\ FirstAccount(parsedData) = FirstId(w)
           /\ SecondAccount(parsedData) = Null
           /\ parsedData.execute_by = Null

C21_Witness ==
  /\ ParserReturned
  /\ instruction = "credit -1 usd to account X y for credit from account a"
  /\ parsedData.status_code = "SY02"
  /\ parsedData.currency = "USD"
  /\ parsedData.credit_account = "X y"
  /\ parsedData.debit_account = Null

(* every styled text with the same instruction written in upper-case        *)
(* keywords and currency, single spaces and no outer whitespace             *)
StyledPairs ==
  { [text  |-> StyledText(x),
     plain |-> StyledText([x EXCEPT !.style = "upper", !.spacing = "plain",
                                    !.cur = "USD"]),
     args  |-> x] : x \in StyledArgs }

(* C22: the fields and status_code parseInstruction returns are invariant   *)
(* under leading and trailing whitespace, under replacing a separator with  *)
(* a run of whitespace, and under the letter case of the keywords and of    *)
(* the currency token; the currency is returned upper-cased and the account *)
(* identifiers with the case they were written in.                          *)
C22_SpellingAndSpacingInvariant ==
  ParserReturned
  => \A p \in StyledPairs :
       instruction = p.text
       => LET q == Parsed[p.plain] IN
          /\ parsedData.type = q.type
          /\ parsedData.amount = q.amount
          /\ parsedData.currency = q.currency
          /\ parsedData.debit_account = q.debit_account
          /\ parsedData.credit_account = q.credit_account
          /\ parsedData.execute_by = q.execute_by
          /\ parsedData.status = q.status
          /\ parsedData.status_code = q.status_code
          /\ parsedData.currency \in {Null, "USD"}
          /\ parsedData.status_code = ""
             => /\ FirstAccount(parsedData) = p.args.ids[1]
                /\ SecondAccount(parsedData) = p.args.ids[2]
                /\ parsedData.execute_by = IF p.args.on = "" THEN Null ELSE p.args.on

C22_Witness ==
  /\ ParserReturned
  /\ instruction = StyledText([type |-> "CREDIT", swapped |-> FALSE, style |-> "mixed",
                               spacing |-> "tabbed", amt |-> AmountText, cur |-> "Usd",
                               ids |-> <<"x Y", "b">>, on |-> "Next Week"])
  /\ parsedData.status_code = ""
  /\ parsedData.currency = "USD"
  /\ parsedData.credit_account = "x Y"
  /\ parsedData.execute_by = "Next Week"

(* the request must be answered without the core: the body is missing, it   *)
(* lacks instruction or accounts, or accounts is not an array               *)
MustReject(p) ==
  \/ p.is \in {"undefined", "null"}
  \/ p.instruction \in {Null, Undefined}
  \/ p.accounts.is # "array"

(* the handler has finished with the request *)
HandlerDone == entry = "handler" /\ pc = "done"

HandlerContract(scope) ==
  (HandlerDone /\ scope)
  => IF MustReject(payload)
     THEN /\ calls = 0
          /\ trace = <<>>
          /\ response.status = "HTTP_400_BAD_REQUEST"
          /\ response.data.status = "failed"
          /\ response.data.status_code = "SY03"
          /\ response.data.accounts = <<>>
     ELSE /\ calls = 1
          /\ ~threw
          /\ response # None
          /\ result # None
          /\ response.data = result
          /\ response.status = "HTTP_400_BAD_REQUEST" <=> result.status = "failed"
          /\ response.status = "HTTP_200_OK" <=> result.status \in {"successful", "pending"}

(* C23: the HTTP handler answers 400 with failed / SY03 and an empty        *)
(* accounts list, without calling the core, when the body is missing, lacks *)
(* instruction or accounts, or accounts is not an array; otherwise it calls *)
(* processPaymentInstruction exactly once and answers 400 if and only if    *)
(* the core's status is failed and 200 for successful or pending, with the  *)
(* core's result as the response body unchanged.                            *)
C23_HandlerContract == HandlerContract(TRUE)

(* the same for the requests whose instruction is not the empty string and  *)
(* whose array holds account objects only                                   *)
C23_WellFormedRequests ==
  HandlerContract(MustReject(payload)
                    \/ (payload.instruction # "" /\ WellFormed(payload.accounts.items)))

(* the first five words are valid: opener, numeric amount, a currency word  *)
(* and the two fixed keywords of the grammar                                *)
HeadValid(w) == ReachesKeywords(w) /\ ~HeadMismatch(w)

(* C24: with words 0-4 valid, the parser looks from position 5 for the      *)
(* first word equal to FOR in any case: none gives SY01; FOR at position 5  *)
(* gives SY03; otherwise the first account id is the words from position 5  *)
(* up to that FOR joined by single spaces, so a word spelled 'for' is       *)
(* always the keyword and never part of the id.                             *)
C24_FirstIdUpToFor ==
  /\ (ParserReturned /\ IsText(instruction) /\ HeadValid(Words(instruction)))
     => LET w    == Words(instruction)
            fors == KeywordPositions(w, "FOR", 5)
        IN IF fors = {}
           THEN /\ parsedData.status_code = "SY01"
                /\ FirstAccount(parsedData) = Null
           ELSE IF ForPosition(w) = 5
           THEN /\ parsedData.status_code = "SY03"
                /\ FirstAccount(parsedData) = Null
           ELSE /\ FirstAccount(parsedData) = FirstId(w)
                /\ \A i \in 1..Len(w) :
                     ToUpperCase(w[i]) = "FOR"
                     => FirstAccount(parsedData) # Join(SubSeq(w, 6, i))
  /\ (ParserReturned
        /\ instruction = "DEBIT 2 USD FROM ACCOUNT x For y FOR CREDIT TO ACCOUNT b")
     => parsedData.debit_account = "x"
  /\ (ParserReturned
        /\ instruction = "CREDIT 2 USD TO ACCOUNT x y Z for DEBIT FROM ACCOUNT a ON 2026-12-31")
     => parsedData.credit_account = "x y Z"

C24_Witness ==
  /\ ParserReturned
  /\ instruction = "DEBIT 2 USD FROM ACCOUNT x For y FOR CREDIT TO ACCOUNT b"
  /\ parsedData.debit_account = "x"
  /\ parsedData.status_code = "SY02"

(* the words are valid up to and including the continuation keywords *)
ContinuationValid(w) == HeadValid(w) /\ FirstIdFound(w) /\ ~TailMismatch(w)

(* C25: after the three continuation keywords the second account id is the  *)
(* words up to the first ON in any case, or up to the end when there is no  *)
(* ON, and then execute_by is null; an empty second-id span gives SY03,     *)
(* also when the word right after the continuation is 'on'; an ON with no   *)
(* word after it gives SY03; otherwise execute_by is all the words after ON *)
(* joined by single spaces, as written.                                     *)
C25_SecondIdAndDate ==
  /\ (ParserReturned /\ IsText(instruction) /\ ContinuationValid(Words(instruction)))
     => LET w     == Words(instruction)
            start == ForPosition(w) + 4
            ons   == KeywordPositions(w, "ON", start)
        IN IF ons = {}
           THEN IF Len(w) = start
                THEN /\ parsedData.status_code = "SY03"
                     /\ SecondAccount(parsedData) = Null
                ELSE /\ parsedData.status_code = ""
                     /\ SecondAccount(parsedData) = Join(SubSeq(w, start + 1, Len(w)))
                     /\ parsedData.execute_by = Null
           ELSE IF FirstPosition(ons) = start
           THEN /\ parsedData.status_code = "SY03"
                /\ SecondAccount(parsedData) = Null
                /\ parsedData.execute_by = Null
           ELSE IF FirstPosition(ons) = Len(w) - 1
           THEN /\ parsedData.status_code = "SY03"
                /\ parsedData.execute_by = Null
           ELSE /\ parsedData.status_code = ""
                /\ SecondAccount(parsedData) = Join(SubSeq(w, start + 1, FirstPosition(ons)))
                /\ parsedData.execute_by = Join(SubSeq(w, FirstPosition(ons) + 2, Len(w)))
  /\ (ParserReturned
        /\ instruction = "CREDIT 2 USD TO ACCOUNT b FOR DEBIT FROM ACCOUNT x Y oN 31-12-2026 Noon")
     => /\ parsedData.debit_account = "x Y"
        /\ parsedData.execute_by = "31-12-2026 Noon"
  /\ (ParserReturned
        /\ instruction = "DEBIT 2 USD FROM ACCOUNT a FOR CREDIT TO ACCOUNT b ON 2026-12-31 ON x")
     => /\ parsedData.credit_account = "b"
        /\ parsedData.execute_by = "2026-12-31 ON x"
  /\ (ParserReturned /\ instruction = "DEBIT 2 USD FROM ACCOUNT a FOR CREDIT TO ACCOUNT b c")
     => /\ parsedData.credit_account = "b c"
        /\ parsedData.execute_by = Null

C25_Witness ==
  /\ ParserReturned
  /\ instruction = "CREDIT 2 USD TO ACCOUNT b FOR DEBIT FROM ACCOUNT x Y oN 31-12-2026 Noon"
  /\ parsedData.status_code = ""
  /\ parsedData.debit_account = "x Y"
  /\ parsedData.execute_by = "31-12-2026 Noon"

(* processPaymentInstruction was called, directly or by the handler *)
CoreCalled == entry \in {"process", "handler"} /\ calls = 1

(* the call of the core is over: it returned or raised *)
CoreOver ==
  /\ CoreCalled
  /\ \/ pc = "done"
     \/ pc = "respond"

StageNames == <<"parse", "validate", "execute">>

StagesInOrder(scope) ==
  /\ (CoreCalled /\ scope)
     => /\ Len(trace) <= 3
        /\ \A i \in 1..Len(trace) :
             /\ trace[i].stage = StageNames[i]
             /\ i >= 2 => trace[i].accounts = accounts0
  /\ (CoreOver /\ scope)
     => /\ Len(trace) = 3
        /\ ~threw
        /\ result # None
        /\ SameFields(result, validatedData)
        /\ "accounts" \in DOMAIN result

(* C26: in every processPaymentInstruction call the three stages run        *)
(* exactly once each in the order parse, validate, execute, each starting   *)
(* after the previous one returned; the validator and the executor receive  *)
(* the caller's same accounts snapshot; and the value returned is the       *)
(* executor's result: the fields of the validated record plus the view.     *)
C26_StagesOnceInOrder == StagesInOrder(TRUE)

(* the same for the arrays all of whose elements are account objects *)
C26_WellFormedArrays == StagesInOrder(WellFormed(accounts0))

(* processPaymentInstruction, called directly or by the handler, returned *)
CoreReturned == CoreOver /\ ~threw

FailureCodes ==
  {"SY01", "SY02", "SY03", "AM01", "CU01", "CU02", "AC01", "AC02", "AC03", "AC04", "DT01"}

(* C27: the record processPaymentInstruction returns always has a non-empty *)
(* status_code, and status and code agree: successful exactly with AP00,    *)
(* pending exactly with AP02, failed exactly with one of SY01, SY02, SY03,  *)
(* AM01, CU01, CU02, AC01, AC02, AC03, AC04, DT01.                          *)
C27_StatusAndCodeAgree ==
  CoreReturned
  => /\ result.status_code \notin {"", Null, Undefined}
     /\ result.status \in {"successful", "pending", "failed"}
     /\ result.status = "successful" <=> result.status_code = "AP00"
     /\ result.status = "pending" <=> result.status_code = "AP02"
     /\ result.status = "failed" <=> result.status_code \in FailureCodes

C27_Witness ==
  /\ CoreReturned
  /\ entry = "process"
  /\ result.status = "pending"
  /\ result.status_code = "AP02"

(* C28: no executed transfer overdraws the debit account: whenever          *)
(* processPaymentInstruction returns successful, the amount is a positive   *)
(* integer not greater than the debit account's snapshot balance, so the    *)
(* resulting debit balance (snapshot balance - amount) is at least 0; and a *)
(* balance is shown below its snapshot value only for the debit account of  *)
(* an AP00 outcome.                                                         *)
C28_NoOverdraft ==
  CoreReturned
  => /\ result.status = "successful"
        => /\ PositiveInteger(result.amount)
           /\ Exists(accounts0, result.debit_account)
           /\ NumLeq(result.amount, Find(accounts0, result.debit_account).balance)
           /\ NumSub(Find(accounts0, result.debit_account).balance, result.amount).num >= 0
           /\ \A i \in 1..Len(result.accounts) :
                EntryIdent(result.accounts[i]) = result.debit_account
                => /\ result.accounts[i].balance
                        = NumSub(Find(accounts0, result.debit_account).balance,
                                 result.amount)
                   /\ result.accounts[i].balance.num >= 0
     /\ \A i \in 1..Len(result.accounts), j \in 1..Len(accounts0) :
          ( /\ MadeFrom(result.accounts[i], accounts0[j])
            /\ NumLess(result.accounts[i].balance, accounts0[j].balance) )
          => /\ result.status_code = "AP00"
             /\ EntryIdent(result.accounts[i]) = result.debit_account

C28_Witness ==
  /\ CoreReturned
  /\ entry = "process"
  /\ result.status = "successful"
  /\ Find(accounts0, result.debit_account).balance = result.amount
  /\ \E i \in 1..Len(result.accounts) :
       /\ EntryIdent(result.accounts[i]) = result.debit_account
       /\ result.accounts[i].balance = N(0)

(* a non-empty text *)
NonEmptyText(x) == IsText(x) /\ x # ""

(* a text without a lower-case letter *)
UpperCased(x) == CharsOf(x) \cap LowerSet = {}

(* C29: every record parseInstruction returns with an empty status_code is  *)
(* complete: type is DEBIT or CREDIT, amount is a number and not NaN,       *)
(* currency is a non-empty upper-case string, debit_account and             *)
(* credit_account are non-empty strings, execute_by is null or a non-empty  *)
(* string; and every record it returns with a non-empty status_code has     *)
(* status failed.                                                           *)
C29_AcceptedRecordIsComplete ==
  ParserReturned
  => IF parsedData.status_code = ""
     THEN /\ parsedData.type \in {"DEBIT", "CREDIT"}
          /\ parsedData.amount.t \in {"num", "inf"}
          /\ NonEmptyText(parsedData.currency)
          /\ UpperCased(parsedData.currency)
          /\ NonEmptyText(parsedData.debit_account)
          /\ NonEmptyText(parsedData.credit_account)
          /\ parsedData.execute_by = Null \/ NonEmptyText(parsedData.execute_by)
     ELSE parsedData.status = "failed"

C29_Witness ==
  /\ ParserReturned
  /\ instruction = "CREDIT -Infinity usd TO ACCOUNT b FOR DEBIT FROM ACCOUNT a ON 2026-12-31"
  /\ parsedData.status_code = ""
  /\ parsedData.currency = "USD"
  /\ parsedData.amount = Infinity(-1)
  /\ parsedData.execute_by = "2026-12-31"

(* stored is a lower- or mixed-case spelling of the upper-case code *)
OtherCaseOf(stored, code) ==
  IsText(stored) /\ stored # code /\ ToUpperCase(stored) = code

(* C30: the validator compares currencies as exact strings with the stored  *)
(* currency while the parser upper-cases the instruction's: in the          *)
(* pipeline, when both accounts store the instruction's currency in lower   *)
(* or mixed case, the result is failed / CU01 and never AP00, although the  *)
(* supported-currency check ignores case and the executor shows stored      *)
(* currencies upper-cased in its view.                                      *)
C30_StoredCurrencyCaseMatters ==
  ( /\ CoreReturned
    /\ IsText(instruction)
    /\ PassesRules1to7(parsedData, accounts0)
    /\ OtherCaseOf(StoredCurrency(accounts0, parsedData.debit_account),
                   parsedData.currency)
    /\ OtherCaseOf(StoredCurrency(accounts0, parsedData.credit_account),
                   parsedData.currency) )
  => /\ UpperCased(parsedData.currency)
     /\ result.status = "failed"
     /\ result.status_code = "CU01"
     /\ \A i \in 1..Len(result.accounts) :
          /\ UpperCased(result.accounts[i].currency)
          /\ result.accounts[i].currency = parsedData.currency

C30_Witness ==
  /\ CoreReturned
  /\ entry = "process"
  /\ instruction = DebitText(AmountText, "usd", "a", "b", "")
  /\ PassesRules1to7(parsedData, accounts0)
  /\ StoredCurrency(accounts0, "a") = "usd"
  /\ StoredCurrency(accounts0, "b") = "usd"
  /\ result.status_code = "CU01"
  /\ Len(result.accounts) = 2
  /\ result.accounts[1].currency = "USD"

====
